---- MODULE Spec2Model ----
(***************************************************************************)
(* The audit evidence pipeline of cfo-scratchpad:                          *)
(*   - writeAuditEvent (backend/middleware_audit.go), called once per      *)
(*     request by AuditMiddleware, appends one JSON line to the day's      *)
(*     store under /evidence/logs;                                         *)
(*   - rotate_logs.sh, run by cron at 00:00 UTC or by an operator,         *)
(*     compresses and hashes a store, deletes the plaintext and applies    *)
(*     the retention rules.                                                *)
(* File names are sequences of one-character strings, so that the two      *)
(* date formats and the find(1) name patterns are computed, not assumed.   *)
(***************************************************************************)
EXTENDS Integers, Sequences, FiniteSets, TLC

\* ------------------------------------------------------------------ bounds
\* number of HTTP requests served in a behaviour
MaxReq == 2
\* the clock runs over the days 0 .. MaxDay
MaxDay == 1
\* number of invocations of rotate_logs.sh in a behaviour
MaxRuns == 2
\* number of ticks of the clock in a behaviour that looks at durations
MaxTicks == 3
\* number of times the system clock is set in such a behaviour
MaxSets == 1
\* the furthest the system clock is set back or forward at once, in ticks
MaxJump == 3
\* number of fetches the page has in flight at once
MaxFetches == 2
\* number of clicks on "New File" in a behaviour
MaxNewFiles == 2
\* number of Ctrl+S saves in a behaviour
MaxSaves == 1
\* tabs the user closes
MaxCloses == 1
\* clicks on files of the sidebar
MaxOpens == 3

\* ---------------------------------------------------- calendar and formats
\* the UTC date of day 0 of the model
EpochDate == [y |-> 2025, m |-> 12, d |-> 30]

IsLeap(y) == (y % 4 = 0 /\ y % 100 # 0) \/ y % 400 = 0

DaysInMonth(y, m) ==
    IF m = 2 THEN (IF IsLeap(y) THEN 29 ELSE 28)
    ELSE IF m \in {4, 6, 9, 11} THEN 30 ELSE 31

NextDate(c) ==
    IF c.d < DaysInMonth(c.y, c.m) THEN [c EXCEPT !.d = c.d + 1]
    ELSE IF c.m < 12 THEN [y |-> c.y, m |-> c.m + 1, d |-> 1]
    ELSE [y |-> c.y + 1, m |-> 1, d |-> 1]

RECURSIVE DateOf(_)
\* the UTC calendar date of day n of the model (n >= 0)
DateOf(n) == IF n = 0 THEN EpochDate ELSE NextDate(DateOf(n - 1))

Digit(n) == <<"0", "1", "2", "3", "4", "5", "6", "7", "8", "9">>[n + 1]

Pad2(n) == <<Digit((n \div 10) % 10), Digit(n % 10)>>

Pad4(n) == <<Digit((n \div 1000) % 10), Digit((n \div 100) % 10)>> \o Pad2(n % 100)

\* Go: t.Format("2006-01-02")
GoDateLayout(c) == Pad4(c.y) \o <<"-">> \o Pad2(c.m) \o <<"-">> \o Pad2(c.d)

\* date(1): date -u +'%Y%m%d'
DateUtcCompact(c) == Pad4(c.y) \o Pad2(c.m) \o Pad2(c.d)

\* ------------------------------------------------------------------- names
LOG_DIR == "/evidence/logs"
HASH_DIR == "/evidence/hashes"

RequestsPrefix == <<"r", "e", "q", "u", "e", "s", "t", "s", "_">>
LogExt == <<".", "l", "o", "g">>
GzExt == <<".", "g", "z">>
ShaExt == <<".", "s", "h", "a", "5", "1", "2">>
RotationLogName == <<"r", "o", "t", "a", "t", "i", "o", "n">> \o LogExt

\* faulty variant: the writer names its store with the compact date of the docs
WriterStoreNameCompact(n) == RequestsPrefix \o DateUtcCompact(DateOf(n)) \o LogExt

\* faulty variant: the store name is computed once, when the process starts
WriterStoreNameCached(n) == RequestsPrefix \o GoDateLayout(EpochDate) \o LogExt

\* writeAuditEvent: the base name of logFile for a call made on day n
WriterStoreName(n) == RequestsPrefix \o GoDateLayout(DateOf(n)) \o LogExt

\* rotate_logs.sh: DATE_UTC when the script starts on day n
RotDateUtc(n) == DateUtcCompact(DateOf(n))

\* rotate_logs.sh: base names of TARGET_LOG, GZ_FILE and HASH_FILE
TargetLogName(dateUtc) == RequestsPrefix \o dateUtc \o LogExt
GzFileName(dateUtc) == TargetLogName(dateUtc) \o GzExt
HashFileName(dateUtc) == RequestsPrefix \o dateUtc \o ShaExt

HasPrefix(s, p) == Len(s) >= Len(p) /\ SubSeq(s, 1, Len(p)) = p
HasSuffix(s, x) == Len(s) >= Len(x) /\ SubSeq(s, Len(s) - Len(x) + 1, Len(s)) = x

\* find -name 'requests_*.gz' and find -name 'requests_*.sha512'
MatchesGzPattern(name) ==
    Len(name) >= Len(RequestsPrefix) + Len(GzExt)
    /\ HasPrefix(name, RequestsPrefix) /\ HasSuffix(name, GzExt)
MatchesShaPattern(name) ==
    Len(name) >= Len(RequestsPrefix) + Len(ShaExt)
    /\ HasPrefix(name, RequestsPrefix) /\ HasSuffix(name, ShaExt)

\* ----------------------------------------------------------------- content
\* A file's content is a sequence of chunks; every chunk has the same fields.
Chunk(t, r, d, n) ==
    [t |-> t, req |-> r, data |-> d, name |-> n, status |-> 0, duration |-> 0,
     timestamp |-> <<>>]

NoName == <<>>
NoData == <<>>

\* start.Format(time.RFC3339) for a start on the given UTC day: the calendar
\* date, "T", the time of day (left out) and "Z"
FormatRFC3339(day) == GoDateLayout(DateOf(day)) \o <<"T", "Z">>

\* the AuditEvent of request r with the given Timestamp, Status and Duration
\* (Method, Path and RemoteIP are stood for by the request's number)
Event(r, timestamp, status, duration) ==
    [id |-> r, Timestamp |-> timestamp, Status |-> status, Duration |-> duration]

\* json.Marshal(event), and the "\n" Encode adds
JsonChunk(event) ==
    [Chunk("json", event.id, NoData, NoName) EXCEPT !.status = event.Status,
                                                    !.duration = event.Duration,
                                                    !.timestamp = event.Timestamp]
Newline == Chunk("nl", 0, NoData, NoName)

\* faulty variant: the record and its newline go out in two Write calls
EncodeWritesSplit(event) == << <<JsonChunk(event)>>, <<Newline>> >>

\* json.Encoder.Encode: the buffers handed to f.Write, one Write call each
EncodeWrites(event) == << <<JsonChunk(event), Newline>> >>

RECURSIVE Flatten(_)
Flatten(ws) == IF ws = <<>> THEN <<>> ELSE Head(ws) \o Flatten(Tail(ws))

\* the complete line of an event
Line(event) == Flatten(EncodeWrites(event))

\* gzip -c TARGET_LOG: the member keeps the original name and the bytes
Gzip(name, bytes) == <<Chunk("gzip", 0, bytes, name)>>
\* what a failing gzip has written to its output so far
GzipPartial(name, bytes) == <<Chunk("gzip-truncated", 0, bytes, name)>>

\* the SHA-512 hash of bytes (collision free)
Sha512(bytes) == Chunk("sha512", 0, bytes, NoName)
\* sha512sum FILE: "<hash>  <file>\n"
Sha512Sum(name, bytes) == <<[Sha512(bytes) EXCEPT !.name = name]>>

\* a line of rotation.log: "[LEVEL] NOW text"
RotLine(text, name) == Chunk(text, 0, NoData, name)

\* a file: its bytes and its modification time, in days
File(c, t) == [content |-> c, mtime |-> t]

\* a line that was written to the volume before the behaviour starts
EarlierLine == Line(Event(0, FormatRFC3339(0), 200, 0))

\* ------------------------------------------------------------------- state
VARIABLES
    today,  \* the current UTC day, 0 .. MaxDay
    fs,     \* the directories that exist, each a map from base name to File
    req,    \* per request: position in AuditMiddleware / writeAuditEvent
    rot,    \* the current (or last) run of rotate_logs.sh
    runs,   \* number of runs of rotate_logs.sh started so far
    clock,  \* the clocks of the host, in nanoseconds
    disk,   \* the file tree of the container outside /evidence
    http,   \* the last request the handlers served, with its response
    ui      \* the page of the frontend in the browser

vars == <<today, fs, req, rot, runs, clock, disk, http, ui>>

Reqs == 1 .. MaxReq


DirExists(dir) == dir \in DOMAIN fs
FileExists(dir, name) == DirExists(dir) /\ name \in DOMAIN fs[dir]
ContentOf(dir, name) == fs[dir][name].content

NoFiles == [n \in {} |-> File(<<>>, 0)]

\* f with the file name set to file
PutFile(f, dir, name, file) ==
    [f EXCEPT ![dir] = [n \in (DOMAIN f[dir]) \cup {name} |->
                           IF n = name THEN file ELSE f[dir][n]]]

\* f without the files of dir whose names are in gone
RemoveFiles(f, dir, gone) ==
    [f EXCEPT ![dir] = [n \in (DOMAIN f[dir]) \ gone |-> f[dir][n]]]

\* mkdir -p dir
MkdirP(f, dir) ==
    IF dir \in DOMAIN f THEN f
    ELSE [x \in (DOMAIN f) \cup {dir} |-> IF x = dir THEN NoFiles ELSE f[x]]

\* ---------------------------------------------------------- initial volume
\* retention horizons of rotate_logs.sh, in days
LogRetentionDays == 180
HashRetentionDays == 365

\* a store of day 0 in the volume under the name rotate_logs.sh looks for
\* (the name the licence and docs/architecture.md give), empty or with one line
EarlierStores ==
    {[day |-> 0, content |-> c] : c \in {<<>>, EarlierLine}}

StoreFile(s) ==
    [n \in {TargetLogName(RotDateUtc(s.day))} |-> File(s.content, s.day)]

\* the last day of the month before the month of c
EndOfPrevMonth(c) ==
    IF c.m > 1 THEN [y |-> c.y, m |-> c.m - 1, d |-> DaysInMonth(c.y, c.m - 1)]
    ELSE [y |-> c.y - 1, m |-> 12, d |-> 31]

RECURSIVE DaysBack(_, _)
\* the calendar date n days before the date c
DaysBack(c, n) ==
    IF n < c.d THEN [c EXCEPT !.d = c.d - n]
    ELSE DaysBack(EndOfPrevMonth(c), n - c.d)

\* the UTC calendar date n days before day 0 of the model
DateBefore(n) == DaysBack(EpochDate, n)

\* DATE_UTC of a run of rotate_logs.sh made n days before day 0
AgedDateUtc(n) == DateUtcCompact(DateBefore(n))

\* ages on day 0, in days, of the sealed artifacts of earlier runs that are
\* still in the volume: around the artifact horizon, and one as old as the
\* digest horizon (the purge has not run for a long time)
ArtifactAges ==
    {LogRetentionDays - 1, LogRetentionDays, LogRetentionDays + 1, HashRetentionDays}

\* ages on day 0 of the digests whose artifact has been purged
OrphanDigestAges == {HashRetentionDays - 1, HashRetentionDays + 1}

\* what an earlier run that sealed a one-line store left as GZ_FILE and
\* HASH_FILE, both last modified on the day of that run
SealedArtifactOf(age) ==
    File(Gzip(TargetLogName(AgedDateUtc(age)), EarlierLine), 0 - age)
SealedDigestOf(age) ==
    File(Sha512Sum(GzFileName(AgedDateUtc(age)),
                   Gzip(TargetLogName(AgedDateUtc(age)), EarlierLine)), 0 - age)

OldArtifactFiles ==
    [n \in {GzFileName(AgedDateUtc(a)) : a \in ArtifactAges} |->
        SealedArtifactOf(CHOOSE a \in ArtifactAges : n = GzFileName(AgedDateUtc(a)))]

OldDigestFiles ==
    [n \in {HashFileName(AgedDateUtc(a)) : a \in ArtifactAges \cup OrphanDigestAges} |->
        SealedDigestOf(CHOOSE a \in ArtifactAges \cup OrphanDigestAges :
                           n = HashFileName(AgedDateUtc(a)))]

\* age on day 0 of the files in the volume that no run has ever sealed or
\* purged: past both horizons
StaleAge == HashRetentionDays + 35

\* what else is in /evidence/logs of a volume in long use: a store under the
\* Event Writer's name that no run has sealed, and a copy of a digest an
\* operator put next to the artifacts
StaleLogFiles ==
    [n \in {RequestsPrefix \o GoDateLayout(DateBefore(StaleAge)) \o LogExt,
            HashFileName(AgedDateUtc(StaleAge))} |->
        IF HasSuffix(n, LogExt) THEN File(EarlierLine, 0 - StaleAge)
        ELSE SealedDigestOf(StaleAge)]

\* and in /evidence/hashes: a copy of an artifact next to the digests
StaleHashFiles ==
    [n \in {GzFileName(AgedDateUtc(StaleAge))} |-> SealedArtifactOf(StaleAge)]

Merge(a, b) == [n \in (DOMAIN a) \cup (DOMAIN b) |-> IF n \in DOMAIN a THEN a[n] ELSE b[n]]

DirsOf(logs, hashes) == [d \in {LOG_DIR, HASH_DIR} |-> IF d = LOG_DIR THEN logs ELSE hashes]

\* the volume /evidence when the container starts
InitialVolumes ==
    \* neither directory exists
    { [d \in {} |-> NoFiles] }
    \* the image's state: /evidence/logs exists, /evidence/hashes does not
    \cup { [d \in {LOG_DIR} |-> NoFiles] }
    \cup { [d \in {LOG_DIR} |-> StoreFile(s)] : s \in EarlierStores }
    \* a volume rotate_logs.sh has run on before
    \cup { DirsOf(Merge(OldArtifactFiles, StaleLogFiles),
                   Merge(OldDigestFiles, StaleHashFiles)) }
    \cup { DirsOf(Merge(StoreFile(s), Merge(OldArtifactFiles, StaleLogFiles)),
                   Merge(OldDigestFiles, StaleHashFiles)) : s \in EarlierStores }

\* ------------------------------------------------------ the response writer
\* the http.ResponseWriter the server hands to the outermost handler: status
\* is the status line sent (0: none yet), body the Write calls made
NewResponse == [status |-> 0, body |-> <<>>]

\* net/http: the first WriteHeader sends the status line, later ones are ignored
ResponseWriteHeader(w, code) == IF w.status = 0 THEN [w EXCEPT !.status = code] ELSE w

\* net/http: Write sends the status line 200 first when none was sent
ResponseWrite(w, bytes) ==
    [status |-> IF w.status = 0 THEN 200 ELSE w.status, body |-> Append(w.body, bytes)]

\* &loggingResponseWriter{ResponseWriter: w, statusCode: 200}
NewLoggingResponseWriter(w) == [ResponseWriter |-> w, statusCode |-> 200]

\* faulty variant: WriteHeader only delegates, the code is not captured
WriteHeaderNotCaptured(lrw, code) ==
    [lrw EXCEPT !.ResponseWriter = ResponseWriteHeader(lrw.ResponseWriter, code)]

\* func (lrw *loggingResponseWriter) WriteHeader(code int)
WriteHeader(lrw, code) ==
    [statusCode |-> code,
     ResponseWriter |-> ResponseWriteHeader(lrw.ResponseWriter, code)]

\* lrw.Write is the embedded ResponseWriter's Write: statusCode is not touched
Write(lrw, bytes) ==
    [lrw EXCEPT !.ResponseWriter = ResponseWrite(lrw.ResponseWriter, bytes)]

\* the calls a handler makes on its ResponseWriter
CallWriteHeader(code) == [op |-> "WriteHeader", code |-> code, bytes |-> ""]
CallWrite(bytes) == [op |-> "Write", code |-> 0, bytes |-> bytes]

\* http.Error(w, msg, code): WriteHeader(code), then the message
HttpError(code) == <<CallWriteHeader(code), CallWrite("message")>>

\* what the registered handlers do with w on their paths: write a JSON or
\* file body without WriteHeader (a 2xx response), http.Error with a 4xx
\* code, http.Error with a 5xx code
HandlerRuns ==
    { <<CallWrite("content")>>,
      HttpError(400),
      HttpError(500) }

\* what an http.Handler given to AuditMiddleware may also do with w: set a
\* status twice, or call http.Error after it has started to write the body
LateHeaderRuns ==
    { <<CallWriteHeader(404), CallWriteHeader(500)>>,
      <<CallWrite("content")>> \o HttpError(500) }

\* the calls a handler has made on w when it panics: none, or part of a body
PanickingRuns ==
    { <<>>, <<CallWrite("content")>> }

RECURSIVE ServeHTTP(_, _)
\* next.ServeHTTP(lrw, r) for a handler that makes the given calls
ServeHTTP(lrw, calls) ==
    IF calls = <<>> THEN lrw
    ELSE ServeHTTP(IF Head(calls).op = "WriteHeader"
                   THEN WriteHeader(lrw, Head(calls).code)
                   ELSE Write(lrw, Head(calls).bytes),
                   Tail(calls))

\* day: the UTC day on which writeAuditEvent named logFile; next: the next
\* buffer of EncodeWrites to write; res: how the call ended; errs: [ERROR] lines;
\* lrw: the loggingResponseWriter of the request; calls: what the handler did;
\* finished: the AuditMiddleware closure has returned to the server, which
\* then completes the response
\* start: the wall clock reading AuditMiddleware took on entry; Duration: the
\* Duration of the event; startMono and elapsed: the monotonic reading at the
\* moment of start and the time that has really passed when Duration is taken;
\* startDay: the UTC day of start
IdleReq == [pc |-> "idle", logFile |-> NoName, day |-> 0, next |-> 1,
            res |-> "none", errs |-> 0,
            lrw |-> [ResponseWriter |-> NewResponse, statusCode |-> 0],
            calls |-> <<>>, finished |-> FALSE,
            start |-> 0, Duration |-> 0, startMono |-> 0, elapsed |-> 0,
            startDay |-> 0]

\* ------------------------------------------------------- clocks and durations
\* nanoseconds in a millisecond (time.Millisecond)
Millisecond == 1000000

\* nanoseconds the clocks advance in one tick
TickNs == 500000

\* the host's clocks when the behaviour starts: wall is the system clock, which
\* can be set; mono is the monotonic clock, which only advances; sets counts
\* the times the system clock was set
BootClock == [wall |-> MaxJump * TickNs, mono |-> 0, sets |-> 0]

\* Go: integer division truncates toward zero
GoQuo(a, b) == IF a >= 0 THEN a \div b ELSE 0 - ((0 - a) \div b)

\* time.Now().UTC(): UTC() drops the monotonic reading, the wall reading is left
NowUTC(c) == c.wall

\* time.Since(start) for a start without monotonic reading: the difference of
\* the wall readings
Since(c, start) == c.wall - start

\* Duration.Milliseconds()
Milliseconds(d) == GoQuo(d, Millisecond)

\* startDay: the UTC day the script started on; seen: the bytes of TARGET_LOG
\* when Step 1 tested it; exit: the exit status, -1 while running
IdleRot == [pc |-> "idle", DATE_UTC |-> NoName, startDay |-> 0, seen |-> <<>>,
            exit |-> 0 - 1]

\* ------------------------------------------------------------------- clock
\* UTC midnight passes
Midnight ==
    /\ today < MaxDay
    /\ today' = today + 1
    /\ UNCHANGED <<fs, req, rot, runs>>
    /\ UNCHANGED <<clock, disk, http, ui>>

\* time passes: both clocks advance by one tick
ClockTick ==
    /\ clock.mono < MaxTicks * TickNs
    /\ clock' = [clock EXCEPT !.wall = clock.wall + TickNs, !.mono = clock.mono + TickNs]
    /\ UNCHANGED <<today, fs, req, rot, runs, disk, http, ui>>

\* the system clock is set (an operator, or a time service stepping it): the
\* wall clock jumps back or forward, the monotonic clock is not affected
ClockSet ==
    /\ clock.sets < MaxSets
    /\ \E jump \in ((0 - MaxJump) .. MaxJump) \ {0} :
          clock' = [clock EXCEPT !.wall = clock.wall + jump * TickNs,
                                 !.sets = clock.sets + 1]
    /\ UNCHANGED <<today, fs, req, rot, runs, disk, http, ui>>

\* --------------------------------------- AuditMiddleware / writeAuditEvent
\* a request enters AuditMiddleware: start is taken, lrw is made and the
\* handler is called (requests are numbered in their order of arrival)
ReqBegin(i) ==
    /\ req[i].pc = "idle"
    /\ \A j \in Reqs : j < i => req[j].pc # "idle"
    /\ req' = [req EXCEPT ![i].pc = "handler",
                          ![i].start = NowUTC(clock),
                          ![i].startMono = clock.mono,
                          ![i].startDay = today,
                          ![i].lrw = NewLoggingResponseWriter(NewResponse)]
    /\ UNCHANGED <<today, fs, rot, runs>>
    /\ UNCHANGED <<clock, disk, http, ui>>

\* writeAuditEvent returns, and with it the AuditMiddleware closure: the
\* server completes the response
Returned(r) == [r EXCEPT !.pc = "done", !.finished = TRUE]

\* faulty variant: the return after the [ERROR] line of os.Stat is missing
StatFailedNoReturn(r) == [r EXCEPT !.pc = "open", !.errs = r.errs + 1]

\* os.Stat(logDir) failed or logDir is not a directory: [ERROR], return
StatFailed(r) == Returned([r EXCEPT !.res = "nodir", !.errs = r.errs + 1])

\* faulty variant: Timestamp is taken when the event is built, not from start
EventOfStampedAtEnd(i) ==
    Event(i, FormatRFC3339(req[i].day), req[i].lrw.statusCode, req[i].Duration)

\* the event AuditMiddleware built for request i
EventOf(i) ==
    Event(i, FormatRFC3339(req[i].startDay), req[i].lrw.statusCode, req[i].Duration)

\* the handler has made the calls of run and returns, the event is built and
\* writeAuditEvent is called: logFile is named after the date at this moment,
\* then os.Stat(logDir): missing or not a directory -> [ERROR], the event is
\* dropped (of the requests whose handlers are running the one that arrived
\* first is taken to return first)
HandlerReturns(i, run) ==
    /\ req[i].pc = "handler"
    /\ \A j \in Reqs : j < i => req[j].pc # "handler"
    /\ LET served == [req[i] EXCEPT !.lrw = ServeHTTP(req[i].lrw, run),
                                    !.calls = run,
                                    !.Duration = Milliseconds(Since(clock, req[i].start)),
                                    !.elapsed = clock.mono - req[i].startMono,
                                    !.logFile = WriterStoreName(today),
                                    !.day = today]
       IN req' = [req EXCEPT ![i] = IF DirExists(LOG_DIR)
                                    THEN [served EXCEPT !.pc = "open"]
                                    ELSE StatFailed(served)]
    /\ UNCHANGED <<today, fs, rot, runs>>
    /\ UNCHANGED <<clock, disk, http, ui>>

\* a registered handler returns
WriteBegin(i) == \E run \in HandlerRuns : HandlerReturns(i, run)

\* a handler that sets a status twice, or after it has started the body,
\* returns
WriteBeginLateHeader(i) == \E run \in LateHeaderRuns : HandlerReturns(i, run)

\* the handler panics after the calls of run: AuditMiddleware has no deferred
\* call, so the panic unwinds through its closure and the statements after
\* next.ServeHTTP are not run; net/http recovers the panic in the connection's
\* goroutine, logs it and closes the connection
HandlerPanics(i) ==
    /\ req[i].pc = "handler"
    /\ \A j \in Reqs : j < i => req[j].pc # "handler"
    /\ \E run \in PanickingRuns :
          req' = [req EXCEPT ![i] = [req[i] EXCEPT !.lrw = ServeHTTP(req[i].lrw, run),
                                                   !.calls = run,
                                                   !.pc = "panicked",
                                                   !.res = "panic",
                                                   !.finished = TRUE]]
    /\ UNCHANGED <<today, fs, rot, runs>>
    /\ UNCHANGED <<clock, disk, http, ui>>

\* faulty variant: the store is opened with O_TRUNC instead of O_APPEND
OpenFileTruncating(f, name) == PutFile(f, LOG_DIR, name, File(<<>>, today))

\* os.OpenFile(logFile, O_APPEND|O_CREATE|O_WRONLY): creates the store when missing
OpenFile(f, name) ==
    IF name \in DOMAIN f[LOG_DIR] THEN f
    ELSE PutFile(f, LOG_DIR, name, File(<<>>, today))

\* the open succeeds, or it fails -> [ERROR], the event is dropped
WriteOpen(i) ==
    /\ req[i].pc = "open"
    /\ \/ /\ DirExists(LOG_DIR)
          /\ fs' = OpenFile(fs, req[i].logFile)
          /\ req' = [req EXCEPT ![i].pc = "encode"]
       \/ /\ req' = [req EXCEPT ![i] = Returned([req[i] EXCEPT !.res = "openfail",
                                                               !.errs = req[i].errs + 1])]
          /\ UNCHANGED fs
    /\ UNCHANGED <<today, rot, runs>>
    /\ UNCHANGED <<clock, disk, http, ui>>

\* faulty variant: without O_APPEND the write goes to the descriptor's offset,
\* which is 0 after the open, over the bytes that are there
AppendToAtStart(f, name, bytes) ==
    IF name \in DOMAIN f[LOG_DIR]
    THEN PutFile(f, LOG_DIR, name,
                 File(bytes \o SubSeq(f[LOG_DIR][name].content, Len(bytes) + 1,
                                      Len(f[LOG_DIR][name].content)), today))
    ELSE f

\* what an O_APPEND write of bytes does to the file the descriptor is open on
AppendTo(f, name, bytes) ==
    IF name \in DOMAIN f[LOG_DIR]
    THEN PutFile(f, LOG_DIR, name, File(f[LOG_DIR][name].content \o bytes, today))
    ELSE f  \* the file was unlinked: the bytes go to an orphaned inode

StrictPrefixes(s) == {SubSeq(s, 1, k) : k \in 0 .. Len(s) - 1}

\* enc.Encode(event): each Write call appends its buffer at the end of the file;
\* a Write that fails has appended a strict prefix of its buffer -> [ERROR]
WriteEncode(i) ==
    /\ req[i].pc = "encode"
    /\ LET buf == EncodeWrites(EventOf(i))[req[i].next]
           last == req[i].next = Len(EncodeWrites(EventOf(i)))
       IN \/ /\ fs' = AppendTo(fs, req[i].logFile, buf)
             /\ req' = IF last
                       THEN [req EXCEPT ![i] = Returned([req[i] EXCEPT !.res = "ok"])]
                       ELSE [req EXCEPT ![i].next = req[i].next + 1]
          \/ \E part \in StrictPrefixes(buf) :
                /\ fs' = AppendTo(fs, req[i].logFile, part)
                /\ req' = [req EXCEPT ![i] = Returned([req[i] EXCEPT !.res = "encfail",
                                                                     !.errs = req[i].errs + 1])]
    /\ UNCHANGED <<today, rot, runs>>
    /\ UNCHANGED <<clock, disk, http, ui>>

\* ---------------------------------------------------------- rotate_logs.sh
\* echo "..." >> ROTATION_LOG
LogRotation(f, lines) ==
    PutFile(f, LOG_DIR, RotationLogName,
            File((IF RotationLogName \in DOMAIN f[LOG_DIR]
                  THEN f[LOG_DIR][RotationLogName].content ELSE <<>>) \o lines, today))

Exited(code) == [rot EXCEPT !.pc = "exited", !.exit = code]

\* faulty variant: the outcome of gzip is not tested: the script goes on to hash
OnGzipFailureIgnored == [rot EXCEPT !.pc = "sha-open"]

\* the else branch of "if gzip ...": exit 1
OnGzipFailure == Exited(1)

\* the script starts: DATE_UTC and NOW are taken from the clock, then
\* mkdir -p "${LOG_DIR}" "${HASH_DIR}" and the start line
RotStart ==
    /\ rot.pc \in {"idle", "exited"}
    /\ runs < MaxRuns
    /\ runs' = runs + 1
    /\ fs' = LogRotation(MkdirP(MkdirP(fs, LOG_DIR), HASH_DIR),
                         <<RotLine("[INFO] Starting daily rotation job", NoName)>>)
    /\ rot' = [pc |-> "locate", DATE_UTC |-> RotDateUtc(today), startDay |-> today,
               seen |-> <<>>, exit |-> 0 - 1]
    /\ UNCHANGED <<today, req>>
    /\ UNCHANGED <<clock, disk, http, ui>>

\* faulty variant: only the existence of TARGET_LOG is tested, not its size
NothingToRotateNoSizeTest(f, target) == target \notin DOMAIN f[LOG_DIR]

\* faulty variant: Step 1 is missing: the script always goes on to Step 2
NothingToRotateNeverTested(f, target) == FALSE

\* [ ! -f TARGET_LOG ] || [ ! -s TARGET_LOG ]
NothingToRotate(f, target) ==
    \/ target \notin DOMAIN f[LOG_DIR]
    \/ f[LOG_DIR][target].content = <<>>

\* Step 1: no store, or an empty one: log it and exit 0
RotLocate ==
    /\ rot.pc = "locate"
    /\ IF NothingToRotate(fs, TargetLogName(rot.DATE_UTC))
       THEN /\ fs' = LogRotation(fs, <<RotLine("[INFO] No active log found for", rot.DATE_UTC)>>)
            /\ rot' = Exited(0)
       ELSE /\ rot' = [rot EXCEPT !.pc = "gzip-open",
                                  !.seen = IF TargetLogName(rot.DATE_UTC) \in DOMAIN fs[LOG_DIR]
                                           THEN fs[LOG_DIR][TargetLogName(rot.DATE_UTC)].content
                                           ELSE <<>>]
            /\ UNCHANGED fs
    /\ UNCHANGED <<today, req, runs>>
    /\ UNCHANGED <<clock, disk, http, ui>>

\* Step 2: the shell opens "> GZ_FILE": created, or truncated when it exists
RotGzipOpen ==
    /\ rot.pc = "gzip-open"
    /\ fs' = PutFile(fs, LOG_DIR, GzFileName(rot.DATE_UTC), File(<<>>, today))
    /\ rot' = [rot EXCEPT !.pc = "gzip"]
    /\ UNCHANGED <<today, req, runs>>
    /\ UNCHANGED <<clock, disk, http, ui>>

\* faulty variant: gzip without -c semantics: a successful gzip unlinks its input
RotGzipInPlace ==
    /\ rot.pc = "gzip"
    /\ LET target == TargetLogName(rot.DATE_UTC)
           gz == GzFileName(rot.DATE_UTC)
       IN \/ /\ target \in DOMAIN fs[LOG_DIR]
             /\ fs' = RemoveFiles(PutFile(fs, LOG_DIR, gz,
                                          File(Gzip(target, fs[LOG_DIR][target].content), today)),
                                  LOG_DIR, {target})
             /\ rot' = [rot EXCEPT !.pc = "sha-open"]
          \/ /\ fs' = LogRotation(PutFile(fs, LOG_DIR, gz, File(GzipPartial(target, <<>>), today)),
                                   <<RotLine("[ERROR] Compression failed for", target)>>)
             /\ rot' = OnGzipFailure
    /\ UNCHANGED <<today, req, runs>>
    /\ UNCHANGED <<clock, disk, http, ui>>

\* gzip -c TARGET_LOG: succeeds with the whole member written, or fails part way
RotGzip ==
    /\ rot.pc = "gzip"
    /\ LET target == TargetLogName(rot.DATE_UTC)
           gz == GzFileName(rot.DATE_UTC)
       IN \/ /\ target \in DOMAIN fs[LOG_DIR]
             /\ fs' = PutFile(fs, LOG_DIR, gz,
                              File(Gzip(target, fs[LOG_DIR][target].content), today))
             /\ rot' = [rot EXCEPT !.pc = "sha-open"]
          \/ \E part \in (IF target \in DOMAIN fs[LOG_DIR]
                          THEN StrictPrefixes(fs[LOG_DIR][target].content)
                          ELSE {<<>>}) :
                \* else branch: log the compression failure, exit 1
                /\ fs' = LogRotation(PutFile(fs, LOG_DIR, gz,
                                             File(GzipPartial(target, part), today)),
                                     <<RotLine("[ERROR] Compression failed for", target)>>)
                /\ rot' = OnGzipFailure
    /\ UNCHANGED <<today, req, runs>>
    /\ UNCHANGED <<clock, disk, http, ui>>

\* the shell opens "> HASH_FILE"
RotShaOpen ==
    /\ rot.pc = "sha-open"
    /\ fs' = PutFile(fs, HASH_DIR, HashFileName(rot.DATE_UTC), File(<<>>, today))
    /\ rot' = [rot EXCEPT !.pc = "sha"]
    /\ UNCHANGED <<today, req, runs>>
    /\ UNCHANGED <<clock, disk, http, ui>>

\* faulty variant: the digest is taken of the plaintext store
DigestInputPlaintext(dateUtc) == TargetLogName(dateUtc)

\* the file sha512sum is given
DigestInput(dateUtc) == GzFileName(dateUtc)

\* sha512sum GZ_FILE: writes the digest line, or fails and set -e ends the script
RotSha ==
    /\ rot.pc = "sha"
    /\ LET input == DigestInput(rot.DATE_UTC)
       IN \/ /\ input \in DOMAIN fs[LOG_DIR]
             /\ fs' = PutFile(fs, HASH_DIR, HashFileName(rot.DATE_UTC),
                              File(Sha512Sum(input, fs[LOG_DIR][input].content), today))
             /\ rot' = [rot EXCEPT !.pc = "rm"]
          \/ /\ rot' = Exited(1)
             /\ UNCHANGED fs
    /\ UNCHANGED <<today, req, runs>>
    /\ UNCHANGED <<clock, disk, http, ui>>

\* rm -f TARGET_LOG, then the two [INFO] lines
RotRm ==
    /\ rot.pc = "rm"
    /\ fs' = LogRotation(RemoveFiles(fs, LOG_DIR, {TargetLogName(rot.DATE_UTC)}),
                         <<RotLine("[INFO] Archived", TargetLogName(rot.DATE_UTC)),
                           RotLine("[INFO] Created hash", HashFileName(rot.DATE_UTC))>>)
    /\ rot' = [rot EXCEPT !.pc = "purge-logs"]
    /\ UNCHANGED <<today, req, runs>>
    /\ UNCHANGED <<clock, disk, http, ui>>

\* faulty variant: find -mtime n together with +n: the horizon day itself expires
OlderThanOrAt(file, n) == today - file.mtime >= n

\* find -mtime +n: the file's age in whole days is greater than n
OlderThan(file, n) == today - file.mtime > n

\* faulty variant: find without -name: every old file of LOG_DIR expires
ExpiredArtifactsAnyName(f) ==
    {n \in DOMAIN f[LOG_DIR] : OlderThan(f[LOG_DIR][n], LogRetentionDays)}

\* find LOG_DIR -type f -name 'requests_*.gz' -mtime +180
ExpiredArtifacts(f) ==
    {n \in DOMAIN f[LOG_DIR] :
        MatchesGzPattern(n) /\ OlderThan(f[LOG_DIR][n], LogRetentionDays)}

\* faulty variant: the digests are purged at the horizon of the artifacts
ExpiredDigestsAtLogHorizon(f) ==
    {n \in DOMAIN f[HASH_DIR] :
        MatchesShaPattern(n) /\ OlderThan(f[HASH_DIR][n], LogRetentionDays)}

\* find HASH_DIR -type f -name 'requests_*.sha512' -mtime +365
ExpiredDigests(f) ==
    {n \in DOMAIN f[HASH_DIR] :
        MatchesShaPattern(n) /\ OlderThan(f[HASH_DIR][n], HashRetentionDays)}

RECURSIVE SetToSeq(_)
SetToSeq(S) == IF S = {} THEN <<>>
               ELSE LET x == CHOOSE y \in S : TRUE IN <<x>> \o SetToSeq(S \ {x})

\* -print ... >> ROTATION_LOG: one line per deleted file
PrintLines(names) == [k \in 1 .. Cardinality(names) |-> RotLine("deleted", SetToSeq(names)[k])]

\* Step 3: -print -delete of the expired artifacts
RotPurgeLogs ==
    /\ rot.pc = "purge-logs"
    /\ LET gone == ExpiredArtifacts(fs)
       IN fs' = IF gone = {} THEN fs
                ELSE LogRotation(RemoveFiles(fs, LOG_DIR, gone), PrintLines(gone))
    /\ rot' = [rot EXCEPT !.pc = "purge-hashes"]
    /\ UNCHANGED <<today, req, runs>>
    /\ UNCHANGED <<clock, disk, http, ui>>

\* Step 3: -print -delete of the expired digests, the completion line, exit 0
RotPurgeHashes ==
    /\ rot.pc = "purge-hashes"
    /\ LET gone == ExpiredDigests(fs)
           kept == IF gone = {} THEN fs
                   ELSE LogRotation(RemoveFiles(fs, HASH_DIR, gone), PrintLines(gone))
       IN fs' = LogRotation(kept, <<RotLine("[INFO] Rotation completed successfully", NoName)>>)
    /\ rot' = Exited(0)
    /\ UNCHANGED <<today, req, runs>>
    /\ UNCHANGED <<clock, disk, http, ui>>

\* ============================================================ the scratchpad
\* ------------------------------------------------------------------- paths
\* Paths are sequences of one-character strings, as the file names above.
Slash == <<"/">>
Dot == <<".">>
DotDot == <<".", ".">>

\* const scratchRoot = "/scratchpad-data"
scratchRoot ==
    <<"/", "s", "c", "r", "a", "t", "c", "h", "p", "a", "d", "-", "d", "a", "t", "a">>

\* const fileExt = ".txt"
fileExt == <<".", "t", "x", "t">>

\* strings.Contains(s, sub)
Contains(s, sub) ==
    \E k \in 1 .. Len(s) - Len(sub) + 1 : SubSeq(s, k, k + Len(sub) - 1) = sub

RECURSIVE SplitFrom(_, _, _)
\* the elements of path between separators, from position k on, cur being the
\* element read so far
SplitFrom(path, k, cur) ==
    IF k > Len(path) THEN <<cur>>
    ELSE IF path[k] = "/" THEN <<cur>> \o SplitFrom(path, k + 1, <<>>)
    ELSE SplitFrom(path, k + 1, Append(cur, path[k]))

\* strings.Split(path, "/")
Split(path) == SplitFrom(path, 1, <<>>)

RECURSIVE JoinElems(_)
\* strings.Join(elems, "/")
JoinElems(elems) ==
    IF elems = <<>> THEN <<>>
    ELSE IF Len(elems) = 1 THEN elems[1]
    ELSE elems[1] \o Slash \o JoinElems(Tail(elems))

IsRooted(path) == path # <<>> /\ path[1] = "/"

RECURSIVE CleanElems(_, _, _)
\* filepath.Clean, element by element: out is what has been kept so far; an
\* empty element and "." are dropped; ".." removes the element before it, is
\* dropped at the root of a rooted path, and is kept at the start of a
\* relative one
CleanElems(elems, out, rooted) ==
    IF elems = <<>> THEN out
    ELSE LET e == Head(elems)
         IN IF e = <<>> \/ e = Dot THEN CleanElems(Tail(elems), out, rooted)
            ELSE IF e = DotDot
            THEN IF out # <<>> /\ out[Len(out)] # DotDot
                 THEN CleanElems(Tail(elems), SubSeq(out, 1, Len(out) - 1), rooted)
                 ELSE IF rooted THEN CleanElems(Tail(elems), out, rooted)
                 ELSE CleanElems(Tail(elems), Append(out, e), rooted)
            ELSE CleanElems(Tail(elems), Append(out, e), rooted)

\* filepath.Clean(path): the shortest path name equivalent to path by purely
\* lexical processing; the empty path becomes "."
Clean(path) ==
    LET kept == JoinElems(CleanElems(Split(path), <<>>, IsRooted(path)))
    IN IF IsRooted(path) THEN Slash \o kept
       ELSE IF kept = <<>> THEN Dot ELSE kept

\* filepath.Join(dir, elem): empty elements are ignored, the result is Cleaned
Join(dir, elem) ==
    IF elem = <<>> THEN Clean(dir)
    ELSE IF dir = <<>> THEN Clean(elem)
    ELSE Clean(dir \o Slash \o elem)

\* the result of sanitizePath for a rejected path
Rejected == <<>>

\* faulty variant: the test for ".." in the cleaned path is missing
sanitizePathUnchecked(path) == Join(scratchRoot, Clean(path))

\* func sanitizePath(path string) string
sanitizePath(path) ==
    LET clean == Clean(path)
    IN IF Contains(clean, DotDot) THEN Rejected ELSE Join(scratchRoot, clean)

\* filepath.Dir(path) of a cleaned absolute path
Dir(path) ==
    LET elems == Split(path)
    IN IF Len(elems) <= 2 THEN Slash
       ELSE JoinElems(SubSeq(elems, 1, Len(elems) - 1))

\* filepath.Base(path) of a cleaned absolute path
Base(path) == Split(path)[Len(Split(path))]

\* path is scratchRoot or lies under it
UnderRoot(path) == path = scratchRoot \/ HasPrefix(path, scratchRoot \o Slash)

\* --------------------------------------------------------- the file tree
\* The file tree of the container outside /evidence is a map from absolute
\* path to node: a directory, or a file with its content.
FileNode(c) == [dir |-> FALSE, content |-> c]
DirNode == [dir |-> TRUE, content |-> ""]

IsDir(d, p) == p \in DOMAIN d /\ d[p].dir
IsFile(d, p) == p \in DOMAIN d /\ ~d[p].dir

\* the entries of the directory p
Entries(d, p) == {q \in DOMAIN d : q # p /\ Dir(q) = p}

PutNode(d, p, node) == [q \in (DOMAIN d) \cup {p} |-> IF q = p THEN node ELSE d[q]]

RECURSIVE Ancestors(_)
\* p and the directories above it
Ancestors(p) == IF p = Slash THEN {Slash} ELSE {p} \cup Ancestors(Dir(p))

\* os.ReadFile(p) succeeds
ReadFileOk(d, p) == IsFile(d, p)

\* ioutil.WriteFile(p, data, 0644) succeeds: open with O_WRONLY|O_CREATE|O_TRUNC
WriteFileOk(d, p) == IsFile(d, p) \/ (p \notin DOMAIN d /\ IsDir(d, Dir(p)))

\* ioutil.WriteFile(p, data, 0644): the file is created, or truncated and rewritten
WriteFile(d, p, data) == PutNode(d, p, FileNode(data))

\* os.MkdirAll(p, 0755) succeeds: nothing on the way down to p is a file
MkdirAllOk(d, p) == \A q \in Ancestors(p) : q \in DOMAIN d => d[q].dir

\* os.MkdirAll(p, 0755): p and the directories above it that are missing
MkdirAll(d, p) ==
    [q \in (DOMAIN d) \cup Ancestors(p) |-> IF q \in DOMAIN d THEN d[q] ELSE DirNode]

\* what os.MkdirAll(p) looks at or creates: p, and the parent of every
\* directory it finds missing
MkdirAllTouches(d, p) ==
    {p} \cup {Dir(q) : q \in {r \in Ancestors(p) : r \notin DOMAIN d}}

\* the nodes that move with a: a itself and what lies under it
Subtree(d, a) == {q \in DOMAIN d : q = a \/ HasPrefix(q, a \o Slash)}

\* os.Rename(a, b) succeeds
RenameOk(d, a, b) ==
    /\ a \in DOMAIN d
    /\ IsDir(d, Dir(b))
    /\ ~(IsDir(d, a) /\ HasPrefix(b, a \o Slash))
    /\ b \in DOMAIN d =>
          /\ d[a].dir = d[b].dir
          /\ d[b].dir => (a = b \/ Entries(d, b) = {})

\* os.Rename(a, b): a and what lies under it is now at b, which is replaced
Rename(d, a, b) ==
    IF a = b THEN d
    ELSE LET moved == Subtree(d, a)
             NewName(q) == b \o SubSeq(q, Len(a) + 1, Len(q))
             stay == (DOMAIN d) \ (moved \cup {b})
         IN [q \in stay \cup {NewName(r) : r \in moved} |->
                IF q \in stay THEN d[q]
                ELSE d[CHOOSE r \in moved : NewName(r) = q]]

\* the file tree when the container starts: the volume /scratchpad-data with
\* a folder d and a note d/a.txt in it, and a file of the image outside it
InitialDisk ==
    LET d == scratchRoot \o Slash \o <<"d">>
    IN [p \in {Slash, scratchRoot, d, d \o Slash \o <<"a">> \o fileExt,
               Slash \o <<"x">> \o fileExt} |->
           IF p \in {Slash, scratchRoot, d} THEN DirNode
           ELSE IF UnderRoot(p) THEN FileNode("old") ELSE FileNode("image")]

\* ---------------------------------------------------------------- handlers
\* the paths a client supplies: an existing note, a new note at the root, a
\* path that climbs out of the root, a path with a ".." that stays inside, a
\* name with two dots in a row, a folder, and the empty string
ClientPaths ==
    { <<"d", "/", "a">> \o fileExt,
      <<"b">> \o fileExt,
      DotDot \o Slash \o <<"x">> \o fileExt,
      <<"d">> \o Slash \o DotDot \o Slash \o <<"b">> \o fileExt,
      <<"b">> \o Dot \o fileExt,
      <<"d">>,
      <<>> }

\* the content a client saves
ClientContents == {"", "new"}

Methods == {"GET", "POST", "DELETE"}

\* what a handler has done: the file tree it leaves, the response it wrote,
\* and the absolute paths it handed to the os and ioutil functions
Outcome(d, w, touched) == [disk |-> d, w |-> w, accessed |-> touched]

\* the body of a response: text, or the names of a JSON list
TextBody(text) == [text |-> text, names |-> {}]
ListBody(names) == [text |-> "", names |-> names]

\* http.Error(w, msg, code)
ErrorResponse(code) ==
    ResponseWrite(ResponseWriteHeader(NewResponse, code), TextBody("message"))

\* json.NewEncoder(w).Encode(list): the first Write sends status 200
JsonResponse(names) == ResponseWrite(NewResponse, ListBody(names))

\* the names HandleFileList collects from the entries of the folder abs
ListedFiles(d, abs) ==
    {Base(q) : q \in {e \in Entries(d, abs) : ~d[e].dir /\ HasSuffix(Base(e), fileExt)}}

\* func HandleFileList(w, r)
HandleFileList(d, folder) ==
    LET absPath == sanitizePath(folder)
    IN IF absPath = Rejected THEN Outcome(d, ErrorResponse(400), {})
       ELSE IF absPath \notin DOMAIN d THEN Outcome(d, JsonResponse({}), {absPath})
       ELSE IF ~IsDir(d, absPath) THEN Outcome(d, ErrorResponse(500), {absPath})
       ELSE Outcome(d, JsonResponse(ListedFiles(d, absPath)), {absPath})

\* func HandleFileGet(w, r): r.Method is not looked at
HandleFileGet(d, method, file) ==
    LET absPath == sanitizePath(file)
    IN IF absPath = Rejected \/ ~HasSuffix(absPath, fileExt)
       THEN Outcome(d, ErrorResponse(400), {})
       ELSE IF ~ReadFileOk(d, absPath) THEN Outcome(d, ErrorResponse(500), {absPath})
       ELSE Outcome(d, ResponseWrite(NewResponse, TextBody(d[absPath].content)), {absPath})

\* a request body that does not decode
BadPayload == [ok |-> FALSE, path |-> <<>>, to |-> <<>>, content |-> ""]

\* the bodies of POST /file/save: {"path": ..., "content": ...}
SavePayload(path, content) == [ok |-> TRUE, path |-> path, to |-> <<>>, content |-> content]

\* the bodies of POST /file/move: {"from": ..., "to": ...}
MovePayload(from, to) == [ok |-> TRUE, path |-> from, to |-> to, content |-> ""]

\* the bodies of POST /folders: {"name": ...}
FolderPayload(name) == [ok |-> TRUE, path |-> name, to |-> <<>>, content |-> ""]

\* func HandleFileSave(w, r)
HandleFileSave(d, body) ==
    LET absPath == sanitizePath(body.path)
    IN IF ~body.ok \/ body.path = <<>> THEN Outcome(d, ErrorResponse(400), {})
       ELSE IF absPath = Rejected \/ ~HasSuffix(absPath, fileExt)
       THEN Outcome(d, ErrorResponse(400), {})
       ELSE IF ~WriteFileOk(d, absPath) THEN Outcome(d, ErrorResponse(500), {absPath})
       ELSE Outcome(WriteFile(d, absPath, body.content),
                    ResponseWriteHeader(NewResponse, 200), {absPath})

\* func HandleFileMove(w, r)
HandleFileMove(d, body) ==
    LET fromPath == sanitizePath(body.path)
        toPath == sanitizePath(body.to)
    IN IF ~body.ok \/ body.path = <<>> \/ body.to = <<>>
       THEN Outcome(d, ErrorResponse(400), {})
       ELSE IF \/ fromPath = Rejected \/ toPath = Rejected
               \/ ~HasSuffix(fromPath, fileExt) \/ ~HasSuffix(toPath, fileExt)
       THEN Outcome(d, ErrorResponse(400), {})
       ELSE IF ~RenameOk(d, fromPath, toPath)
       THEN Outcome(d, ErrorResponse(500), {fromPath, toPath})
       ELSE Outcome(Rename(d, fromPath, toPath),
                    ResponseWriteHeader(NewResponse, 200), {fromPath, toPath})

\* func handleListFolders(w, r): the folders under scratchRoot, relative to it
handleListFolders(d) ==
    IF scratchRoot \notin DOMAIN d THEN Outcome(d, JsonResponse({}), {scratchRoot})
    ELSE Outcome(d,
                 JsonResponse({SubSeq(q, Len(scratchRoot) + 2, Len(q)) :
                                  q \in {e \in Subtree(d, scratchRoot) :
                                            d[e].dir /\ e # scratchRoot}}),
                 Subtree(d, scratchRoot))

\* func handleCreateFolder(w, r)
handleCreateFolder(d, body) ==
    LET safePath == sanitizePath(body.path)
    IN IF ~body.ok \/ body.path = <<>> THEN Outcome(d, ErrorResponse(400), {})
       ELSE IF safePath = Rejected THEN Outcome(d, ErrorResponse(400), {})
       ELSE IF ~MkdirAllOk(d, safePath)
       THEN Outcome(d, ErrorResponse(500), MkdirAllTouches(d, safePath))
       ELSE Outcome(MkdirAll(d, safePath), ResponseWriteHeader(NewResponse, 201),
                    MkdirAllTouches(d, safePath))

\* func HandleFolders(w, r): the switch on r.Method
HandleFolders(d, method, body) ==
    IF method = "GET" THEN handleListFolders(d)
    ELSE IF method = "POST" THEN handleCreateFolder(d, body)
    ELSE Outcome(d, ErrorResponse(405), {})

\* main: the routes of the mux
Mux == [url \in {"/folders", "/files", "/file", "/file/save", "/file/move"} |->
           CASE url = "/folders" -> "HandleFolders"
             [] url = "/files" -> "HandleFileList"
             [] url = "/file" -> "HandleFileGet"
             [] url = "/file/save" -> "HandleFileSave"
             [] url = "/file/move" -> "HandleFileMove"]

\* no request has been served yet
NoExchange == [url |-> "", method |-> "", body |-> BadPayload, existed |-> {},
               w |-> NewResponse, accessed |-> {}]

\* the request (method, url, body) is served by the handler: disk is what it
\* leaves, http the request with the response; existed are the paths the
\* handler accessed that were files when the request arrived
Exchange(method, url, body, out) ==
    /\ disk' = out.disk
    /\ http' = [url |-> url, method |-> method, body |-> body,
                existed |-> {p \in out.accessed : IsFile(disk, p)},
                w |-> out.w, accessed |-> out.accessed]

\* GET /files?folder=...
ServeFileList ==
    /\ \E url \in DOMAIN Mux, method \in Methods, folder \in ClientPaths :
          /\ Mux[url] = "HandleFileList"
          /\ Exchange(method, url, FolderPayload(folder), HandleFileList(disk, folder))
    /\ UNCHANGED <<today, fs, req, rot, runs, clock, ui>>

\* any method on /file?path=...
ServeFileGet ==
    /\ \E url \in DOMAIN Mux, method \in Methods, file \in ClientPaths :
          /\ Mux[url] = "HandleFileGet"
          /\ Exchange(method, url, FolderPayload(file), HandleFileGet(disk, method, file))
    /\ UNCHANGED <<today, fs, req, rot, runs, clock, ui>>

\* POST /file/save
ServeFileSave ==
    /\ \E url \in DOMAIN Mux, method \in Methods,
          body \in {BadPayload} \cup {SavePayload(p, c) : p \in ClientPaths,
                                                           c \in ClientContents} :
          /\ Mux[url] = "HandleFileSave"
          /\ Exchange(method, url, body, HandleFileSave(disk, body))
    /\ UNCHANGED <<today, fs, req, rot, runs, clock, ui>>

\* POST /file/move
ServeFileMove ==
    /\ \E url \in DOMAIN Mux, method \in Methods,
          body \in {BadPayload} \cup {MovePayload(p, q) : p \in ClientPaths,
                                                          q \in ClientPaths} :
          /\ Mux[url] = "HandleFileMove"
          /\ Exchange(method, url, body, HandleFileMove(disk, body))
    /\ UNCHANGED <<today, fs, req, rot, runs, clock, ui>>

\* GET, POST or another method on /folders
ServeFolders ==
    /\ \E url \in DOMAIN Mux, method \in Methods,
          body \in {BadPayload} \cup {FolderPayload(p) : p \in ClientPaths} :
          /\ Mux[url] = "HandleFolders"
          /\ Exchange(method, url, body, HandleFolders(disk, method, body))
    /\ UNCHANGED <<today, fs, req, rot, runs, clock, ui>>

\* ---------------------------------------------------------------- frontend
\* const MAX_TABS = 10
MAX_TABS == 10

\* encodeURIComponent(s), for the characters of the paths of the model
RECURSIVE EncodeURIComponent(_)
EncodeURIComponent(s) ==
    IF s = <<>> THEN <<>>
    ELSE (IF Head(s) = "/" THEN <<"%", "2", "F">> ELSE <<Head(s)>>)
         \o EncodeURIComponent(Tail(s))

\* r.URL.Query().Get(...): the percent-decoding of the query value
RECURSIVE QueryUnescape(_)
QueryUnescape(s) ==
    IF s = <<>> THEN <<>>
    ELSE IF Len(s) >= 3 /\ SubSeq(s, 1, 3) = <<"%", "2", "F">>
    THEN Slash \o QueryUnescape(SubSeq(s, 4, Len(s)))
    ELSE <<Head(s)>> \o QueryUnescape(Tail(s))

\* the value of a query parameter as the handler receives it
QueryValue(s) == QueryUnescape(EncodeURIComponent(s))

RECURSIVE Decimal(_)
\* String(n) for n >= 0
Decimal(n) == IF n < 10 THEN <<Digit(n)>> ELSE Decimal(n \div 10) \o <<Digit(n % 10)>>

\* String(counter).padStart(2, "0")
PadStart2(n) == IF Len(Decimal(n)) < 2 THEN <<"0">> \o Decimal(n) ELSE Decimal(n)

\* `${baseName}-${suffix}.txt`
SuffixedName(baseName, counter) == baseName \o <<"-">> \o PadStart2(counter) \o fileExt

RECURSIVE FirstFreeName(_, _, _)
\* the do-while loop of createNewFile: the first name, counting from counter,
\* that files does not include
FirstFreeName(files, baseName, counter) ==
    IF SuffixedName(baseName, counter) \in files
    THEN FirstFreeName(files, baseName, counter + 1)
    ELSE SuffixedName(baseName, counter)

\* the folder of the notes and the base name the user gives to prompt()
NotesFolder == <<"d">>
NotesBase == <<"n">>

\* what the k-th note holds: the first one is an empty file, as createNewFile
\* leaves it
NoteContent(k) == IF k = 1 THEN "" ELSE "old"

\* the file tree with n notes in the folder
NotesDisk(n) ==
    LET d == scratchRoot \o Slash \o NotesFolder
        note(k) == d \o Slash \o SuffixedName(NotesBase, k)
    IN [p \in {Slash, scratchRoot, d} \cup {note(k) : k \in 1 .. n} |->
           IF p \in {Slash, scratchRoot, d} THEN DirNode
           ELSE FileNode(NoteContent(CHOOSE k \in 1 .. n : p = note(k)))]

\* null
Null == <<>>

\* a fetch that has been issued and whose then-callback has not run yet
Fetch(kind, path, content) == [kind |-> kind, path |-> path, content |-> content]
NoFetch == Fetch("none", Null, "")

\* the notes of NotesDisk by name, and the path openFile is given for one
NoteNames(n) == {SuffixedName(NotesBase, k) : k \in 1 .. n}
NotePath(k) == NotesFolder \o Slash \o SuffixedName(NotesBase, k)

\* renderTab(path, content): the tab element and the textarea it appends
TabElement(path, content) == [title |-> path, value |-> content]

\* the page after DOMContentLoaded and loadFolders
BlankPage ==
    [tabs |-> <<>>, dom |-> <<>>, currentTab |-> Null, activeFolder |-> Null,
     listed |-> {}, inflight |-> <<>>, done |-> NoFetch, news |-> 0, saves |-> 0,
     closes |-> 0, opens |-> 0]

\* the page of a user who has opened the folder of n notes in the sidebar and
\* then its first m notes, one after the other: tabs is the object tabs in
\* the order of its keys; dom the children of #tabs and of #editor-area in
\* their order, the k-th tab element (by its title) with the k-th textarea (by
\* its value); listed the files shown under the folder, inflight the fetches
\* issued, done the fetch whose callback ran last; news, saves, closes and
\* opens count the clicks on "New File", the Ctrl+S saves, the tabs closed and
\* the clicks on files of the sidebar
SessionPage(n, m) ==
    [tabs |-> [k \in 1 .. m |-> [path |-> NotePath(k), content |-> NoteContent(k)]],
     dom |-> [k \in 1 .. m |-> TabElement(NotePath(k), NoteContent(k))],
     currentTab |-> NotePath(m),
     activeFolder |-> NotesFolder,
     listed |-> NoteNames(n),
     inflight |-> <<>>, done |-> NoFetch, news |-> 0, saves |-> 0, closes |-> 0,
     opens |-> 0]

\* Object.keys(tabs)
TabKeys(u) == [k \in 1 .. Len(u.tabs) |-> u.tabs[k].path]

\* tabs[path] is set
HasTab(u, path) == \E k \in 1 .. Len(u.tabs) : u.tabs[k].path = path

\* tabs[path] = content: a new key goes last, an old key keeps its place
SetTab(u, path, content) ==
    IF HasTab(u, path)
    THEN [k \in 1 .. Len(u.tabs) |->
             IF u.tabs[k].path = path THEN [path |-> path, content |-> content]
             ELSE u.tabs[k]]
    ELSE Append(u.tabs, [path |-> path, content |-> content])

\* function switchTab(path)
switchTab(u, path) == [u EXCEPT !.currentTab = path]

\* tabs[path] as a condition: undefined and the empty string are falsy
TabTruthy(u, path) ==
    \E k \in 1 .. Len(u.tabs) : u.tabs[k].path = path /\ u.tabs[k].content # ""

\* function openFile(path), up to the fetch
openFile(u, path) ==
    IF TabTruthy(u, path) THEN switchTab(u, path)
    ELSE IF Len(TabKeys(u)) >= MAX_TABS THEN u
    ELSE [u EXCEPT !.inflight = Append(u.inflight, Fetch("open", path, ""))]

\* the then-callback of openFile: tabs[path] = content, renderTab, switchTab
openFileThen(u, path, content) ==
    switchTab([u EXCEPT !.tabs = SetTab(u, path, content),
                        !.dom = Append(u.dom, TabElement(path, content))], path)

\* keys.indexOf(path), counted from 1: 0 when path is not a key of tabs
IndexOfKey(u, path) ==
    IF HasTab(u, path) THEN CHOOSE k \in 1 .. Len(u.tabs) : u.tabs[k].path = path ELSE 0

\* the sequence s without its k-th element
RemoveAt(s, k) == SubSeq(s, 1, k - 1) \o SubSeq(s, k + 1, Len(s))

\* function closeTab(path): the key is deleted, then the idx-th children of
\* #tabs and #editor-area are removed (a TypeError ends the function when
\* there is no such child), then the first remaining key is switched to
closeTab(u, path) ==
    LET idx == IndexOfKey(u, path)
    IN IF idx = 0 THEN u
       ELSE IF idx > Len(u.dom) THEN [u EXCEPT !.tabs = RemoveAt(u.tabs, idx)]
       ELSE LET closed == [u EXCEPT !.tabs = RemoveAt(u.tabs, idx),
                                    !.dom = RemoveAt(u.dom, idx),
                                    !.currentTab = Null]
            IN IF Len(closed.tabs) > 0 THEN switchTab(closed, closed.tabs[1].path)
               ELSE closed

\* requireOk(res)
requireOk(w) == w.status \in 200 .. 299

\* u without the k-th fetch in flight, which is now the one done
Settle(u, k) ==
    [u EXCEPT !.inflight = SubSeq(u.inflight, 1, k - 1)
                              \o SubSeq(u.inflight, k + 1, Len(u.inflight)),
              !.done = u.inflight[k]]

\* what openFile meets for the file f of the sidebar: a key of tabs with
\* content, a key with the empty string, a file being fetched, or none of these
ClickCase(u, f) ==
    LET path == u.activeFolder \o Slash \o f
    IN IF TabTruthy(u, path) THEN "open"
       ELSE IF HasTab(u, path) THEN "empty"
       ELSE IF \E k \in 1 .. Len(u.inflight) : u.inflight[k].path = path THEN "fetching"
       ELSE "new"

\* the user clicks a file of the sidebar: openFile(`${folder}/${file}`) (the
\* files for which openFile meets the same case do not differ: a fixed one of
\* them is taken)
ClickFile ==
    /\ Len(ui.inflight) < MaxFetches
    /\ ui.opens < MaxOpens
    /\ \E f \in ui.listed :
          /\ f = CHOOSE g \in ui.listed : ClickCase(ui, g) = ClickCase(ui, f)
          /\ ui' = [openFile(ui, NotesFolder \o Slash \o f) EXCEPT !.opens = ui.opens + 1]
    /\ UNCHANGED <<today, fs, req, rot, runs, clock, disk, http>>

\* openFile: GET /file is served and the then-callback opens the tab
FileOpened ==
    /\ \E k \in 1 .. Len(ui.inflight) :
          /\ ui.inflight[k].kind = "open"
          /\ LET file == QueryValue(ui.inflight[k].path)
                 out == HandleFileGet(disk, "GET", file)
             IN /\ Exchange("GET", "/file", FolderPayload(file), out)
                /\ ui' = IF requireOk(out.w)
                         THEN openFileThen(Settle(ui, k), ui.inflight[k].path,
                                           out.w.body[1].text)
                         ELSE Settle(ui, k)
    /\ UNCHANGED <<today, fs, req, rot, runs, clock>>

\* the user clicks "New File": createNewFile, up to the first fetch
ClickNewFile ==
    /\ ui.activeFolder # Null
    /\ ui.news < MaxNewFiles
    /\ Len(ui.inflight) < MaxFetches
    /\ ui' = [ui EXCEPT !.news = ui.news + 1,
                        !.inflight = Append(ui.inflight,
                                            Fetch("new-files", ui.activeFolder, ""))]
    /\ UNCHANGED <<today, fs, req, rot, runs, clock, disk, http>>

\* createNewFile: GET /files is served; the then-callback picks the first
\* free -NN name of the list and posts the save of the empty file
NewFileNamed ==
    /\ \E k \in 1 .. Len(ui.inflight) :
          /\ ui.inflight[k].kind = "new-files"
          /\ LET folder == QueryValue(ui.inflight[k].path)
                 out == HandleFileList(disk, folder)
                 finalName == FirstFreeName(out.w.body[1].names, NotesBase, 1)
             IN /\ Exchange("GET", "/files", FolderPayload(folder), out)
                /\ ui' = IF requireOk(out.w)
                         THEN [Settle(ui, k) EXCEPT
                                  !.inflight = Append(Settle(ui, k).inflight,
                                                      Fetch("new-save",
                                                            ui.activeFolder \o Slash \o finalName,
                                                            ""))]
                         ELSE Settle(ui, k)
    /\ UNCHANGED <<today, fs, req, rot, runs, clock>>

\* createNewFile: POST /file/save is served; the then-callback opens the file
NewFileSaved ==
    /\ \E k \in 1 .. Len(ui.inflight) :
          /\ ui.inflight[k].kind = "new-save"
          /\ LET body == SavePayload(ui.inflight[k].path, ui.inflight[k].content)
                 out == HandleFileSave(disk, body)
             IN /\ Exchange("POST", "/file/save", body, out)
                /\ ui' = IF requireOk(out.w)
                         THEN openFile(Settle(ui, k), ui.inflight[k].path)
                         ELSE Settle(ui, k)
    /\ UNCHANGED <<today, fs, req, rot, runs, clock>>

\* the user clicks the name of a tab: switchTab(path), for the path the tab
\* was rendered with
ClickTabName ==
    /\ \E k \in 1 .. Len(ui.dom) : ui' = switchTab(ui, ui.dom[k].title)
    /\ ui' # ui
    /\ UNCHANGED <<today, fs, req, rot, runs, clock, disk, http>>

\* the user presses Ctrl+Tab: the key after currentTab is switched to
PressCtrlTab ==
    /\ ui.currentTab # Null
    /\ IndexOfKey(ui, ui.currentTab) >= 1
    /\ ui' = switchTab(ui, TabKeys(ui)[(IndexOfKey(ui, ui.currentTab) % Len(ui.tabs)) + 1])
    /\ ui' # ui
    /\ UNCHANGED <<today, fs, req, rot, runs, clock, disk, http>>

\* the user clicks the X of a tab: closeTab(path), for the path the tab was
\* rendered with
ClickCloseTab ==
    /\ ui.closes < MaxCloses
    /\ \E k \in 1 .. Len(ui.dom) :
          ui' = [closeTab(ui, ui.dom[k].title) EXCEPT !.closes = ui.closes + 1]
    /\ UNCHANGED <<today, fs, req, rot, runs, clock, disk, http>>

\* the user presses Ctrl+S, after typing in the editor that is shown or
\* without: saveFile(currentTab, editors[i].value) for the index i of
\* currentTab among the keys of tabs
PressCtrlS ==
    /\ ui.currentTab # Null
    /\ IndexOfKey(ui, ui.currentTab) \in 1 .. Len(ui.dom)
    /\ ui.saves < MaxSaves
    /\ Len(ui.inflight) < MaxFetches
    /\ \E value \in {ui.dom[IndexOfKey(ui, ui.currentTab)].value, "new"} :
          ui' = [ui EXCEPT !.saves = ui.saves + 1,
                           !.dom[IndexOfKey(ui, ui.currentTab)].value = value,
                           !.inflight = Append(ui.inflight,
                                               Fetch("save", ui.currentTab, value))]
    /\ UNCHANGED <<today, fs, req, rot, runs, clock, disk, http>>

\* saveFile: POST /file/save is served; the then-callback only logs
FileSaved ==
    /\ \E k \in 1 .. Len(ui.inflight) :
          /\ ui.inflight[k].kind = "save"
          /\ LET body == SavePayload(ui.inflight[k].path, ui.inflight[k].content)
             IN Exchange("POST", "/file/save", body, HandleFileSave(disk, body))
          /\ ui' = Settle(ui, k)
    /\ UNCHANGED <<today, fs, req, rot, runs, clock>>

\* ----------------------------------------------------------- specification
\* the evidence volume, the backend and the rotation job when the container starts
InitBackend ==
    /\ today = 0
    /\ fs \in InitialVolumes
    /\ req = [i \in Reqs |-> IdleReq]
    /\ rot = IdleRot
    /\ runs = 0
    /\ clock = BootClock

Init ==
    /\ InitBackend
    /\ disk = InitialDisk
    /\ http = NoExchange
    /\ ui = BlankPage

\* the requests, with the clock
NextWriter ==
    \/ Midnight
    \/ \E i \in Reqs : ReqBegin(i)
    \/ \E i \in Reqs : WriteBegin(i)
    \/ \E i \in Reqs : WriteOpen(i)
    \/ \E i \in Reqs : WriteEncode(i)

\* the runs of rotate_logs.sh, with the clock
NextRotation ==
    \/ Midnight
    \/ RotStart
    \/ RotLocate
    \/ RotGzipOpen
    \/ RotGzip
    \/ RotShaOpen
    \/ RotSha
    \/ RotRm
    \/ RotPurgeLogs
    \/ RotPurgeHashes

Next ==
    \/ NextWriter
    \/ NextRotation

\* the backend and the rotation job on one volume
Spec == Init /\ [][Next]_vars

\* the backend alone: rotate_logs.sh is never run
SpecWriter == Init /\ [][NextWriter]_vars

\* the rotation job alone: no request is served
SpecRotation == Init /\ [][NextRotation]_vars

\* the image's state of the volume: /evidence/logs exists and is empty
ImageVolume == [d \in {LOG_DIR} |-> NoFiles]

\* AuditMiddleware around any http.Handler, on the image's volume
InitMiddleware == Init /\ fs = ImageVolume

NextMiddleware ==
    \/ Midnight
    \/ \E i \in Reqs : ReqBegin(i)
    \/ \E i \in Reqs : WriteBegin(i)
    \/ \E i \in Reqs : WriteBeginLateHeader(i)
    \/ \E i \in Reqs : HandlerPanics(i)
    \/ \E i \in Reqs : WriteOpen(i)
    \/ \E i \in Reqs : WriteEncode(i)

SpecMiddleware == InitMiddleware /\ [][NextMiddleware]_vars

InitDuration == Init /\ fs = ImageVolume

\* the requests at the scale of milliseconds, within one UTC day
NextDuration ==
    \/ ClockTick
    \/ ClockSet
    \/ \E i \in Reqs : ReqBegin(i)
    \/ \E i \in Reqs : WriteBegin(i)
    \/ \E i \in Reqs : WriteOpen(i)
    \/ \E i \in Reqs : WriteEncode(i)

\* the backend alone, with the clocks of the host running
SpecDuration == InitDuration /\ [][NextDuration]_vars

InitHandlers == Init /\ fs = ImageVolume

\* the requests to the API, each served in one step
NextHandlers ==
    \/ ServeFileList
    \/ ServeFileGet
    \/ ServeFileSave
    \/ ServeFileMove
    \/ ServeFolders

\* the handlers of the API on the scratchpad volume
SpecHandlers == InitHandlers /\ [][NextHandlers]_vars

\* a scratchpad with a folder of notes, and the page loaded in a browser
InitFrontend ==
    /\ InitBackend
    /\ fs = ImageVolume
    /\ disk = NotesDisk(MAX_TABS + 1)
    /\ http = NoExchange
    /\ ui = SessionPage(MAX_TABS + 1, MAX_TABS - 2)

\* what the user does on the page and the fetches that settle
NextFrontend ==
    \/ ClickFile
    \/ FileOpened
    \/ ClickNewFile
    \/ NewFileNamed
    \/ NewFileSaved
    \/ PressCtrlS
    \/ FileSaved

\* the page of one browser against the handlers of the API
SpecFrontend == InitFrontend /\ [][NextFrontend]_vars

\* a folder of three notes, the first two open in tabs
InitTabs ==
    /\ InitBackend
    /\ fs = ImageVolume
    /\ disk = NotesDisk(3)
    /\ http = NoExchange
    /\ ui = SessionPage(3, 2)

\* what the user does with the tabs and the fetches that settle
NextTabs ==
    \/ ClickFile
    \/ FileOpened
    \/ ClickTabName
    \/ PressCtrlTab
    \/ ClickCloseTab
    \/ PressCtrlS
    \/ FileSaved

\* the tabs of the page of one browser
SpecTabs == InitTabs /\ [][NextTabs]_vars

TypeOK ==
    /\ today \in 0 .. MaxDay
    /\ runs \in 0 .. MaxRuns
    /\ DOMAIN fs \subseteq {LOG_DIR, HASH_DIR}

\* ================================================================== claims
AllDone == \A i \in Reqs : req[i].pc = "done"

\* the requests whose whole record was appended to the store name
Recorded(name) == {i \in Reqs : req[i].logFile = name /\ req[i].res = "ok"}

\* the requests whose append to the store name failed part way
Torn(name) == {i \in Reqs : req[i].logFile = name /\ req[i].res = "encfail"}

\* the stores the Event Writer has named
WriterStores == {req[i].logFile : i \in {j \in Reqs : req[j].logFile # NoName}}

\* content is a sequence of complete lines: a JSON record, then its newline
WellFormed(content) ==
    /\ Len(content) % 2 = 0
    /\ \A k \in 1 .. Len(content) :
          IF k % 2 = 1 THEN content[k].t = "json" ELSE content[k] = Newline

\* the requests whose record is line k of content
LineOwner(content, k) == content[2 * k - 1].req

\* content holds exactly one complete line per request of S and nothing else
ExactlyTheLinesOf(content, S) ==
    /\ WellFormed(content)
    /\ Len(content) = 2 * Cardinality(S)
    /\ \A i \in S : \E k \in 1 .. Cardinality(S) : LineOwner(content, k) = i

\* C1: when N concurrent writeAuditEvent calls on one UTC day, with the
\* evidence directory present and no I/O fault, have all returned, the day's
\* store holds exactly N complete lines, one per call, none torn or mixed.
C1_ExactlyOneLinePerCall ==
    AllDone =>
        \A name \in WriterStores :
            Torn(name) = {} =>
                IF FileExists(LOG_DIR, name)
                THEN ExactlyTheLinesOf(ContentOf(LOG_DIR, name), Recorded(name))
                ELSE Recorded(name) = {}

C1_Witness ==
    /\ AllDone
    /\ \E name \in WriterStores :
          /\ Cardinality(Recorded(name)) >= 2
          /\ Recorded(name) = {i \in Reqs : req[i].logFile = name}
          /\ FileExists(LOG_DIR, name)
          /\ Len(ContentOf(LOG_DIR, name)) = 2 * Cardinality(Recorded(name))

\* ------------------------------------------------------- rotation claims
\* the run has found a store with events (Step 1 passed)
Rotating == rot.seen # <<>>

TargetExists == FileExists(LOG_DIR, TargetLogName(rot.DATE_UTC))

\* the sealed artifact of the run's date holds the whole compressed store
ArtifactComplete ==
    /\ FileExists(LOG_DIR, GzFileName(rot.DATE_UTC))
    /\ ContentOf(LOG_DIR, GzFileName(rot.DATE_UTC))
          = Gzip(TargetLogName(rot.DATE_UTC), rot.seen)

\* the digest of the run's date has been written
DigestWritten ==
    /\ FileExists(HASH_DIR, HashFileName(rot.DATE_UTC))
    /\ ContentOf(HASH_DIR, HashFileName(rot.DATE_UTC)) # <<>>

\* C2: in every state of a rotation run that found a store with events, also
\* after the run has aborted, the evidence exists as the plaintext store or as
\* the complete sealed artifact, and the plaintext store is gone only if both
\* the complete artifact and its digest have been written.
C2_NoLossDuringRotation ==
    Rotating =>
        /\ (TargetExists /\ ContentOf(LOG_DIR, TargetLogName(rot.DATE_UTC)) = rot.seen)
              \/ ArtifactComplete
        /\ ~TargetExists => (ArtifactComplete /\ DigestWritten)

C2_Witness ==
    /\ Rotating
    /\ ~TargetExists
    /\ ArtifactComplete
    /\ DigestWritten

C2_WitnessAborted ==
    /\ Rotating
    /\ rot.pc = "exited"
    /\ rot.exit = 1
    /\ TargetExists

\* C3 (as claimed): every run targets the store of the day before the UTC day
\* it is started on.
C3_TargetsYesterday ==
    (rot.pc # "idle" /\ rot.startDay >= 1) =>
        rot.DATE_UTC = RotDateUtc(rot.startDay - 1)

\* the run went through the whole of Step 2
Sealed == Rotating /\ rot.pc \in {"rm", "purge-logs", "purge-hashes", "exited"}
                   /\ (rot.pc = "exited" => rot.exit = 0)

\* the files of /evidence/logs that are gzip members of the store name
ArtifactsOf(name) ==
    {n \in DOMAIN fs[LOG_DIR] :
        /\ fs[LOG_DIR][n].content # <<>>
        /\ fs[LOG_DIR][n].content[1].t \in {"gzip", "gzip-truncated"}
        /\ fs[LOG_DIR][n].content[1].name = name}

\* the files of /evidence/hashes that are digest lines for the file name
DigestsOf(name) ==
    {n \in DOMAIN fs[HASH_DIR] :
        /\ fs[HASH_DIR][n].content # <<>>
        /\ fs[HASH_DIR][n].content[1].name = name}

\* C7: a run that sealed a store with events has produced exactly one sealed
\* artifact and exactly one digest for the date, and the digest is the SHA-512
\* hash of the artifact's bytes, not of the plaintext.
C7_DigestOfArtifact ==
    Sealed =>
        /\ ArtifactsOf(TargetLogName(rot.DATE_UTC)) = {GzFileName(rot.DATE_UTC)}
        /\ ArtifactComplete
        /\ DigestsOf(GzFileName(rot.DATE_UTC)) = {HashFileName(rot.DATE_UTC)}
        /\ ContentOf(HASH_DIR, HashFileName(rot.DATE_UTC))[1].data
              = ContentOf(LOG_DIR, GzFileName(rot.DATE_UTC))
        /\ ContentOf(HASH_DIR, HashFileName(rot.DATE_UTC))[1].data # rot.seen
        /\ ContentOf(HASH_DIR, HashFileName(rot.DATE_UTC))
              = Sha512Sum(GzFileName(rot.DATE_UTC), Gzip(TargetLogName(rot.DATE_UTC), rot.seen))

C7_Witness ==
    /\ Sealed
    /\ rot.pc = "exited"
    /\ ~TargetExists
    /\ ArtifactComplete
    /\ DigestWritten

\* the date d (a DATE_UTC) is sealed in the volume f: no plaintext store, a
\* complete sealed artifact and a written digest
SealedIn(f, d) ==
    /\ LOG_DIR \in DOMAIN f
    /\ HASH_DIR \in DOMAIN f
    /\ TargetLogName(d) \notin DOMAIN f[LOG_DIR]
    /\ GzFileName(d) \in DOMAIN f[LOG_DIR]
    /\ f[LOG_DIR][GzFileName(d)].content # <<>>
    /\ f[LOG_DIR][GzFileName(d)].content[1].t = "gzip"
    /\ HashFileName(d) \in DOMAIN f[HASH_DIR]
    /\ f[HASH_DIR][HashFileName(d)].content # <<>>

\* the artifact and the digest of date d are the same files, byte for byte and
\* with the same modification time, in f and g
SameSeal(f, g, d) ==
    /\ LOG_DIR \in DOMAIN g
    /\ HASH_DIR \in DOMAIN g
    /\ GzFileName(d) \in DOMAIN g[LOG_DIR]
    /\ g[LOG_DIR][GzFileName(d)] = f[LOG_DIR][GzFileName(d)]
    /\ HashFileName(d) \in DOMAIN g[HASH_DIR]
    /\ g[HASH_DIR][HashFileName(d)] = f[HASH_DIR][HashFileName(d)]

\* a step that starts a run of the script
StartsRun == rot.pc \in {"idle", "exited"} /\ rot'.pc \notin {"idle", "exited"}

\* a step of Step 1 of the script
LocateStep == rot.pc = "locate" /\ rot' # rot

\* C8: a run for a date that is already sealed is a no-op: starting it and its
\* Step 1 leave the sealed artifact and the digest unchanged, and Step 1 ends
\* the run with exit status 0.
C8_SecondRunIsNoOp ==
    [][ /\ (StartsRun /\ SealedIn(fs, rot'.DATE_UTC))
            => (SameSeal(fs, fs', rot'.DATE_UTC) /\ rot'.pc = "locate")
        /\ (LocateStep /\ SealedIn(fs, rot.DATE_UTC))
            => (/\ rot'.pc = "exited"
                /\ rot'.exit = 0
                /\ SameSeal(fs, fs', rot.DATE_UTC)
                /\ SealedIn(fs', rot.DATE_UTC)) ]_vars

\* the rotation-activity record says that the store name was archived
Archived(name) ==
    /\ FileExists(LOG_DIR, RotationLogName)
    /\ \E k \in 1 .. Len(ContentOf(LOG_DIR, RotationLogName)) :
          /\ ContentOf(LOG_DIR, RotationLogName)[k].t = "[INFO] Archived"
          /\ ContentOf(LOG_DIR, RotationLogName)[k].name = name

C8_Witness ==
    /\ runs >= 2
    /\ rot.pc = "exited"
    /\ rot.exit = 0
    /\ ~Rotating
    /\ Archived(TargetLogName(rot.DATE_UTC))
    /\ SealedIn(fs, rot.DATE_UTC)

\* the sealed artifacts and digests in the volume f
ArtifactNames(f) ==
    IF LOG_DIR \in DOMAIN f THEN {n \in DOMAIN f[LOG_DIR] : MatchesGzPattern(n)} ELSE {}
DigestNames(f) ==
    IF HASH_DIR \in DOMAIN f THEN {n \in DOMAIN f[HASH_DIR] : MatchesShaPattern(n)} ELSE {}

TargetAbsentOrEmpty ==
    \/ ~TargetExists
    \/ ContentOf(LOG_DIR, TargetLogName(rot.DATE_UTC)) = <<>>

\* C10: a run whose target store is absent or empty ends in Step 1 with exit
\* status 0, and neither starting it nor Step 1 creates a sealed artifact or a
\* digest.
C10_NothingToRotate ==
    [][ /\ StartsRun
            => (ArtifactNames(fs') = ArtifactNames(fs) /\ DigestNames(fs') = DigestNames(fs))
        /\ (LocateStep /\ TargetAbsentOrEmpty)
            => (/\ rot'.pc = "exited"
                /\ rot'.exit = 0
                /\ ArtifactNames(fs') = ArtifactNames(fs)
                /\ DigestNames(fs') = DigestNames(fs)
                /\ GzFileName(rot.DATE_UTC) \in DOMAIN fs[LOG_DIR]
                      <=> GzFileName(rot.DATE_UTC) \in DOMAIN fs'[LOG_DIR]) ]_vars

\* a run ended with nothing to rotate although an empty store exists, and the
\* date has no artifact and no digest
C10_Witness ==
    /\ rot.pc = "exited"
    /\ rot.exit = 0
    /\ ~Rotating
    /\ TargetExists
    /\ ContentOf(LOG_DIR, TargetLogName(rot.DATE_UTC)) = <<>>
    /\ ~FileExists(LOG_DIR, GzFileName(rot.DATE_UTC))
    /\ ~FileExists(HASH_DIR, HashFileName(rot.DATE_UTC))

\* a run ended with nothing to rotate because no store exists for its date
C10_WitnessAbsent ==
    /\ rot.pc = "exited"
    /\ rot.exit = 0
    /\ ~Rotating
    /\ ~TargetExists
    /\ ~FileExists(LOG_DIR, GzFileName(rot.DATE_UTC))

\* ------------------------------------------- writer and rotation together
\* the stores named in "[INFO] Archived" lines of the rotation-activity record
ArchivedStores ==
    IF FileExists(LOG_DIR, RotationLogName)
    THEN {ContentOf(LOG_DIR, RotationLogName)[k].name :
            k \in {j \in 1 .. Len(ContentOf(LOG_DIR, RotationLogName)) :
                     ContentOf(LOG_DIR, RotationLogName)[j].t = "[INFO] Archived"}}
    ELSE {}

\* the files of /evidence/logs the rotation job reads, writes or deletes: the
\* store and the artifact of the current run, the stores it has archived, the
\* rotation-activity record, and what the retention purge matches
RotationFiles ==
    (IF rot.pc # "idle"
     THEN {TargetLogName(rot.DATE_UTC), GzFileName(rot.DATE_UTC)} ELSE {})
    \cup ArchivedStores
    \cup {RotationLogName}
    \cup ArtifactNames(fs)

\* C4: no file that the rotation job and its retention purge operate on is a
\* file that a record() call, concurrent or later, has named for append.
C4_DisjointFiles ==
    \A i \in Reqs : req[i].logFile # NoName => req[i].logFile \notin RotationFiles

\* a request has its store open while a run started on the same UTC day is
\* compressing, hashing or deleting its target
C4_Witness ==
    \E i \in Reqs :
        /\ req[i].pc = "encode"
        /\ FileExists(LOG_DIR, req[i].logFile)
        /\ rot.pc \in {"gzip", "sha", "rm"}
        /\ rot.startDay = req[i].day

\* C5 (as claimed): after the run started on day D+1 has ended, a store that
\* received an event on day D is sealed: it has a sealed artifact and a
\* digest, and the plaintext store is gone.
C5_SealedByNextRun ==
    \A i \in Reqs :
        ( /\ req[i].res = "ok"
          /\ rot.pc = "exited"
          /\ rot.startDay = req[i].day + 1
          /\ FileExists(LOG_DIR, req[i].logFile)
                => fs[LOG_DIR][req[i].logFile].mtime = req[i].day )
        => /\ ~FileExists(LOG_DIR, req[i].logFile)
           /\ \/ FileExists(LOG_DIR, req[i].logFile \o GzExt)
              \/ FileExists(LOG_DIR, GzFileName(RotDateUtc(req[i].day)))
           /\ FileExists(HASH_DIR, HashFileName(RotDateUtc(req[i].day)))

\* C6 (as claimed): the store name the Event Writer computes on a UTC day is
\* the store name the rotation job computes for that day.
C6_SameStoreName ==
    \A i \in Reqs :
        req[i].logFile # NoName =>
            req[i].logFile = TargetLogName(RotDateUtc(req[i].day))

\* the DATE_UTC in the name of a sealed artifact
DateOfArtifact(n) ==
    SubSeq(n, Len(RequestsPrefix) + 1, Len(n) - Len(LogExt) - Len(GzExt))

\* the artifact n has been sealed: the rotation-activity record says its store
\* was archived, or it stands complete with its digest and no plaintext store
OnceSealed(n) ==
    \/ TargetLogName(DateOfArtifact(n)) \in ArchivedStores
    \/ SealedIn(fs, DateOfArtifact(n))

\* C9: a step of a record() call or of a rotation run leaves the content of
\* every artifact that has been sealed unchanged; the only step that removes
\* one is the retention purge.
C9_SealedArtifactImmutable ==
    [][ \A n \in ArtifactNames(fs) :
            OnceSealed(n) =>
                \/ /\ n \in ArtifactNames(fs')
                   /\ fs'[LOG_DIR][n].content = fs[LOG_DIR][n].content
                \/ /\ n \notin ArtifactNames(fs')
                   /\ rot.pc = "purge-logs" ]_vars

\* after a store was sealed, a later run has ended and a request was recorded
C9_Witness ==
    /\ runs >= 2
    /\ rot.pc = "exited"
    /\ ~Rotating
    /\ TargetLogName(rot.DATE_UTC) \in ArchivedStores
    /\ SealedIn(fs, rot.DATE_UTC)
    /\ \E i \in Reqs : req[i].res = "ok" /\ req[i].day = rot.startDay

\* ------------------------------------------------- failed compression (C11)
\* the step of Step 2 in which gzip fails: the else branch has appended its
\* "[ERROR] Compression failed for" line to the rotation-activity record
GzipFailureStep ==
    /\ rot.pc = "gzip"
    /\ fs'[LOG_DIR][RotationLogName].content # fs[LOG_DIR][RotationLogName].content
    /\ fs'[LOG_DIR][RotationLogName].content[Len(fs'[LOG_DIR][RotationLogName].content)].t
          = "[ERROR] Compression failed for"

\* a step of the run up to and including the compression
UpToGzipStep == rot.pc \in {"locate", "gzip-open", "gzip"} /\ rot' # rot

\* C11: when gzip fails, the run ends with exit status 1 in that very step,
\* the plaintext store is still there with the content Step 1 found and its
\* modification time, and no step of the run up to there has written or
\* created a file of /evidence/hashes.
C11_GzipFailureAborts ==
    [][ /\ UpToGzipStep => fs'[HASH_DIR] = fs[HASH_DIR]
        /\ GzipFailureStep
            => (/\ rot'.pc = "exited"
                /\ rot'.exit = 1
                /\ TargetLogName(rot.DATE_UTC) \in DOMAIN fs'[LOG_DIR]
                /\ fs'[LOG_DIR][TargetLogName(rot.DATE_UTC)].content = rot.seen
                /\ fs'[LOG_DIR][TargetLogName(rot.DATE_UTC)]
                      = fs[LOG_DIR][TargetLogName(rot.DATE_UTC)]) ]_vars

\* a run has ended on a failed compression: exit status 1, the store intact,
\* a truncated artifact, and no digest for the date
C11_Witness ==
    /\ Rotating
    /\ rot.pc = "exited"
    /\ rot.exit = 1
    /\ TargetExists
    /\ ContentOf(LOG_DIR, TargetLogName(rot.DATE_UTC)) = rot.seen
    /\ ContentOf(LOG_DIR, RotationLogName)[Len(ContentOf(LOG_DIR, RotationLogName))].t
          = "[ERROR] Compression failed for"
    /\ ~FileExists(HASH_DIR, HashFileName(rot.DATE_UTC))

\* ------------------------------------------- plaintext and artifact (C12)
\* C12 (as claimed): after a run that sealed its date has exited with status
\* 0 no plaintext store remains, and in no state before the run completes do
\* the plaintext store and the sealed artifact both exist, nor neither.
C12_NeverBothNorNeither ==
    /\ (Sealed /\ rot.pc = "exited") => ~TargetExists
    /\ (Rotating /\ rot.pc # "exited") =>
          /\ ~(TargetExists /\ ArtifactComplete)
          /\ TargetExists \/ ArtifactComplete

\* C12 (amended): after a run that sealed its date has exited with status 0
\* no plaintext store remains; in every state before the run completes the
\* plaintext store or the complete sealed artifact exists; and both exist
\* from the end of the compression until rm has deleted the plaintext store.
C12_BothUntilRemoved ==
    /\ (Sealed /\ rot.pc = "exited") => (~TargetExists /\ ArtifactComplete)
    /\ (Rotating /\ rot.pc # "exited") => (TargetExists \/ ArtifactComplete)
    /\ (Rotating /\ rot.pc \in {"sha-open", "sha", "rm"}) => (TargetExists /\ ArtifactComplete)
    /\ (Rotating /\ rot.pc \in {"purge-logs", "purge-hashes"})
          => (~TargetExists /\ ArtifactComplete)

\* the digest is written and rm has not run yet: store and artifact coexist
C12_Witness ==
    /\ Rotating
    /\ rot.pc = "rm"
    /\ TargetExists
    /\ ArtifactComplete
    /\ DigestWritten

\* the run that sealed its date has exited with status 0
C12_WitnessExited ==
    /\ Sealed
    /\ rot.pc = "exited"
    /\ ~TargetExists
    /\ Archived(TargetLogName(rot.DATE_UTC))

\* ------------------------------------------------ retention purge (C13-C15)
\* a step that ends a run of the script
EndsRun == rot.pc \notin {"idle", "exited"} /\ rot'.pc = "exited"

\* the sealed artifacts and digests of the volume f that were past their
\* horizons on the given day
PastHorizonArtifacts(f, day) ==
    {n \in ArtifactNames(f) : day - f[LOG_DIR][n].mtime > LogRetentionDays}
PastHorizonDigests(f, day) ==
    {n \in DigestNames(f) : day - f[HASH_DIR][n].mtime > HashRetentionDays}

\* C13 (as claimed): every run of the rotation job, also one that finds
\* nothing to rotate, ends with the retention purge: the step that ends a run
\* is the last purge step, and when the run has ended no artifact and no
\* digest that was past its horizon when the run started is left.
C13_PurgeEndsEveryRun ==
    [][ EndsRun =>
            /\ rot.pc = "purge-hashes"
            /\ PastHorizonArtifacts(fs', rot.startDay) = {}
            /\ PastHorizonDigests(fs', rot.startDay) = {} ]_vars

\* the age in whole days, on the current day, of a file of the volume
AgeOf(file) == today - file.mtime

\* the two steps of Step 3
PurgeLogsStep == rot.pc = "purge-logs" /\ rot'.pc = "purge-hashes"
PurgeHashesStep == rot.pc = "purge-hashes" /\ rot'.pc = "exited"

\* the files of dir in f other than the rotation-activity record
FilesOf(f, dir) == [n \in (DOMAIN f[dir]) \ {RotationLogName} |-> f[dir][n]]

\* C14: the purge of the artifacts deletes a sealed artifact if and only if
\* its age, from its own modification time, is greater than 180 days, and
\* the purge of the digests deletes a digest if and only if its age is
\* greater than 365 days; what is not deleted is left as it was; an artifact
\* aged 179 or 180 days is kept and one aged 181 days is deleted.
C14_StrictlyOlderIsPurged ==
    [][ /\ PurgeLogsStep =>
              /\ \A n \in ArtifactNames(fs) :
                    /\ n \notin DOMAIN fs'[LOG_DIR] <=> AgeOf(fs[LOG_DIR][n]) > 180
                    /\ AgeOf(fs[LOG_DIR][n]) \in {179, 180} => n \in DOMAIN fs'[LOG_DIR]
                    /\ AgeOf(fs[LOG_DIR][n]) = 181 => n \notin DOMAIN fs'[LOG_DIR]
              /\ \A n \in DOMAIN FilesOf(fs', LOG_DIR) :
                    n \in DOMAIN fs[LOG_DIR] /\ fs'[LOG_DIR][n] = fs[LOG_DIR][n]
              /\ \A n \in DOMAIN FilesOf(fs, LOG_DIR) :
                    ~MatchesGzPattern(n) => n \in DOMAIN fs'[LOG_DIR]
              /\ fs'[HASH_DIR] = fs[HASH_DIR]
        /\ PurgeHashesStep =>
              /\ \A n \in DigestNames(fs) :
                    n \notin DOMAIN fs'[HASH_DIR] <=> AgeOf(fs[HASH_DIR][n]) > 365
              /\ \A n \in DOMAIN fs'[HASH_DIR] :
                    n \in DOMAIN fs[HASH_DIR] /\ fs'[HASH_DIR][n] = fs[HASH_DIR][n]
              /\ FilesOf(fs', LOG_DIR) = FilesOf(fs, LOG_DIR) ]_vars

\* a run made on day 0 has purged: of the artifacts aged 179, 180 and 181
\* days only the last is gone, and of the digests aged 364, 365 and 366 days
\* only the last is gone
C14_Witness ==
    /\ today = 0
    /\ rot.pc = "exited"
    /\ rot.exit = 0
    /\ Sealed
    /\ FileExists(LOG_DIR, GzFileName(AgedDateUtc(179)))
    /\ FileExists(LOG_DIR, GzFileName(AgedDateUtc(180)))
    /\ ~FileExists(LOG_DIR, GzFileName(AgedDateUtc(181)))
    /\ FileExists(HASH_DIR, HashFileName(AgedDateUtc(181)))
    /\ FileExists(HASH_DIR, HashFileName(AgedDateUtc(364)))
    /\ FileExists(HASH_DIR, HashFileName(AgedDateUtc(365)))
    /\ ~FileExists(HASH_DIR, HashFileName(AgedDateUtc(366)))

\* the artifact n is the complete sealed form of a rotated date: a whole gzip
\* member, and the plaintext store of its date is gone
SuccessfullyRotated(n) ==
    /\ fs[LOG_DIR][n].content # <<>>
    /\ fs[LOG_DIR][n].content[1].t = "gzip"
    /\ ~FileExists(LOG_DIR, TargetLogName(DateOfArtifact(n)))

\* C15: in every state, after any runs and purges, the digest of every
\* sealed artifact of a successfully rotated date that is still in the volume
\* is in the volume too, and it is the digest of that artifact.
C15_DigestOutlivesArtifact ==
    \A n \in ArtifactNames(fs) :
        SuccessfullyRotated(n) =>
            /\ FileExists(HASH_DIR, HashFileName(DateOfArtifact(n)))
            /\ ContentOf(HASH_DIR, HashFileName(DateOfArtifact(n)))
                  = Sha512Sum(n, ContentOf(LOG_DIR, n))

\* a purge has deleted expired digests (and the artifact that had one of
\* them) while an older artifact and the one just sealed are still there
C15_Witness ==
    /\ rot.pc = "exited"
    /\ Sealed
    /\ SealedIn(fs, rot.DATE_UTC)
    /\ ~FileExists(HASH_DIR, HashFileName(AgedDateUtc(HashRetentionDays)))
    /\ ~FileExists(LOG_DIR, GzFileName(AgedDateUtc(HashRetentionDays)))
    /\ \E n \in ArtifactNames(fs) : n # GzFileName(rot.DATE_UTC) /\ SuccessfullyRotated(n)

\* ------------------------------------------------ evidence directories (C16)
\* the step in which writeAuditEvent of request i tests the evidence directory
StatStep(i) == req[i].pc = "handler" /\ req'[i].pc # "handler"

\* C16 (as claimed): no step of a record() call or of a rotation run creates
\* /evidence/logs or /evidence/hashes: the directories that exist after the
\* step are those that existed before it; and a record() call that finds
\* /evidence/logs missing reports it with one [ERROR] line and returns.
C16_NoDirectoryCreated ==
    [][ /\ DOMAIN fs' = DOMAIN fs
        /\ \A i \in Reqs :
              (StatStep(i) /\ ~DirExists(LOG_DIR))
                  => (/\ req'[i].pc = "done"
                      /\ req'[i].res = "nodir"
                      /\ req'[i].errs = req[i].errs + 1) ]_vars

\* ------------------------------------------------ requests (C17-C20)
\* the ways writeAuditEvent fails
WriteFailures == {"nodir", "openfail", "encfail"}

\* number of complete lines of request i in content: its JSON record directly
\* followed by the newline
CompleteLines(content, i) ==
    Cardinality({k \in 1 .. Len(content) - 1 :
                    /\ content[k].t = "json"
                    /\ content[k].req = i
                    /\ content[k + 1] = Newline})

RECURSIVE SumOver(_, _)
SumOver(names, i) ==
    IF names = {} THEN 0
    ELSE LET n == CHOOSE x \in names : TRUE
         IN CompleteLines(ContentOf(LOG_DIR, n), i) + SumOver(names \ {n}, i)

\* number of audit events of request i in the files of /evidence/logs
EventsOf(i) == IF DirExists(LOG_DIR) THEN SumOver(DOMAIN fs[LOG_DIR], i) ELSE 0

\* the codes the handler passed to WriteHeader, in the order of the calls
ExplicitCodes(calls) ==
    [k \in 1 .. Len(SelectSeq(calls, LAMBDA c : c.op = "WriteHeader")) |->
        SelectSeq(calls, LAMBDA c : c.op = "WriteHeader")[k].code]

\* the bodies the handler wrote
WrittenBodies(calls) ==
    [k \in 1 .. Len(SelectSeq(calls, LAMBDA c : c.op = "Write")) |->
        SelectSeq(calls, LAMBDA c : c.op = "Write")[k].bytes]

\* the response a handler with these calls produces when nothing else
\* touches it: the first code it set, 200 when it wrote without setting one
ResponseOfHandler(calls) ==
    [status |-> IF Head(calls).op = "WriteHeader" THEN Head(calls).code ELSE 200,
     body |-> WrittenBodies(calls)]

\* C17: when the audit write of a request has failed (directory missing, open
\* failure or append failure), the call has returned and the request is
\* finished, exactly one [ERROR] line was logged for it, no complete line of
\* its event is in any store then or later (no retry), and the response is
\* the status and body the handler produced.
C17_FailureIsLoggedOnce ==
    \A i \in Reqs :
        req[i].res \in WriteFailures =>
            /\ req[i].pc = "done"
            /\ req[i].finished
            /\ req[i].errs = 1
            /\ EventsOf(i) = 0
            /\ req[i].lrw.ResponseWriter = ResponseOfHandler(req[i].calls)

\* one request failed in the open and another in the append, which left a
\* record without its newline in the store
C17_Witness ==
    \E i, j \in Reqs :
        /\ req[i].res = "openfail"
        /\ req[j].res = "encfail"
        /\ req[j].lrw.ResponseWriter.status = 500
        /\ FileExists(LOG_DIR, req[j].logFile)
        /\ ContentOf(LOG_DIR, req[j].logFile) # <<>>

\* a request was served while /evidence/logs is missing
C17_WitnessNoDir ==
    \E i \in Reqs :
        /\ req[i].res = "nodir"
        /\ ~DirExists(LOG_DIR)
        /\ req[i].lrw.ResponseWriter.status = 400

\* no audit write has met an I/O fault and /evidence/logs exists
NoWriteFault ==
    /\ DirExists(LOG_DIR)
    /\ \A j \in Reqs : req[j].res \notin WriteFailures

\* C18: with /evidence/logs present and no I/O fault, a request never has
\* more than one audit event, and once it is finished it has exactly one,
\* whether the handler answered 2xx, 4xx or 5xx.
C18_OneEventPerRequest ==
    NoWriteFault =>
        \A i \in Reqs :
            /\ EventsOf(i) <= 1
            /\ req[i].finished => EventsOf(i) = 1

\* two finished requests, one answered 2xx and one 5xx, one event each
C18_Witness ==
    /\ NoWriteFault
    /\ \E i, j \in Reqs :
          /\ req[i].finished /\ req[i].lrw.ResponseWriter.status = 200
          /\ req[j].finished /\ req[j].lrw.ResponseWriter.status = 500
          /\ EventsOf(i) = 1
          /\ EventsOf(j) = 1

\* two finished requests, one answered 4xx, one event each
C18_Witness4xx ==
    /\ NoWriteFault
    /\ AllDone
    /\ \E i \in Reqs : req[i].lrw.ResponseWriter.status = 400 /\ EventsOf(i) = 1

\* writeAuditEvent of request i is running
InWrite(i) == req[i].pc \in {"open", "encode"}

\* C19 (as claimed): the response does not wait for the audit write: while
\* writeAuditEvent of a request is running, the response of that request is
\* complete or can be completed by a step that does not end the audit write.
C19_ResponseNotBlocked ==
    \A i \in Reqs :
        InWrite(i) =>
            \/ req[i].finished
            \/ ENABLED (NextWriter /\ req'[i].finished /\ InWrite(i)')

\* C20: the Status of every audit event in a store is 200 when the handler of
\* its request never called WriteHeader, and otherwise the code it passed.
C20_StatusRecorded ==
    DirExists(LOG_DIR) =>
        \A n \in DOMAIN fs[LOG_DIR] :
            \A k \in 1 .. Len(ContentOf(LOG_DIR, n)) :
                LET c == ContentOf(LOG_DIR, n)[k]
                IN (c.t = "json" /\ c.req \in Reqs) =>
                      c.status = IF ExplicitCodes(req[c.req].calls) = <<>> THEN 200
                                 ELSE ExplicitCodes(req[c.req].calls)[
                                          Len(ExplicitCodes(req[c.req].calls))]

\* a store holds the event of a request whose handler set no code, with
\* Status 200, and the event of a request whose handler set 500, with 500
C20_Witness ==
    \E i, j \in Reqs :
        /\ req[i].res = "ok" /\ req[j].res = "ok"
        /\ ExplicitCodes(req[i].calls) = <<>>
        /\ ExplicitCodes(req[j].calls) = <<500>>
        /\ req[i].logFile = req[j].logFile
        /\ FileExists(LOG_DIR, req[i].logFile)
        /\ \E k, l \in 1 .. Len(ContentOf(LOG_DIR, req[i].logFile)) :
              /\ ContentOf(LOG_DIR, req[i].logFile)[k].req = i
              /\ ContentOf(LOG_DIR, req[i].logFile)[k].status = 200
              /\ ContentOf(LOG_DIR, req[i].logFile)[l].req = j
              /\ ContentOf(LOG_DIR, req[i].logFile)[l].status = 500

\* ------------------------------------------------ frame of the Event Writer
\* the files of the volume other than the file name of /evidence/logs are
\* the same before and after the step, and no directory appears or goes
OnlyFileTouched(name) ==
    /\ DOMAIN fs' = DOMAIN fs
    /\ \A d \in DOMAIN fs :
          /\ DOMAIN fs'[d] \subseteq (DOMAIN fs[d]) \cup (IF d = LOG_DIR THEN {name} ELSE {})
          /\ \A n \in DOMAIN fs[d] :
                (d # LOG_DIR \/ n # name) => (n \in DOMAIN fs'[d] /\ fs'[d][n] = fs[d][n])

\* the step is the return of the handler of request i into writeAuditEvent
CallStep(i) == req[i].pc = "handler" /\ req'[i].pc # "handler"

\* C21: every call names its store after the UTC date at the moment of the
\* call; a step of the call changes no file but that store, which the open
\* creates empty when it is missing, and the successful append adds exactly
\* the line of the call's event at its end.
C21_OneStorePerCall ==
    [][ /\ \A i \in Reqs :
              /\ CallStep(i) =>
                    /\ req'[i].logFile = RequestsPrefix \o GoDateLayout(DateOf(today)) \o LogExt
                    /\ fs' = fs
              /\ (req[i].pc = "open" /\ req'[i].pc = "encode") =>
                    /\ OnlyFileTouched(req[i].logFile)
                    /\ FileExists(LOG_DIR, req[i].logFile)'
                    /\ ContentOf(LOG_DIR, req[i].logFile)' =
                          IF FileExists(LOG_DIR, req[i].logFile)
                          THEN ContentOf(LOG_DIR, req[i].logFile) ELSE <<>>
              /\ (req[i].pc = "encode" /\ req'[i].res = "ok") =>
                    /\ OnlyFileTouched(req[i].logFile)
                    /\ FileExists(LOG_DIR, req[i].logFile)
                    /\ ContentOf(LOG_DIR, req[i].logFile)' =
                          ContentOf(LOG_DIR, req[i].logFile) \o Line(EventOf(i))
        /\ fs' # fs => \E i \in Reqs : InWrite(i) /\ req'[i] # req[i]
                                       /\ OnlyFileTouched(req[i].logFile)
      ]_vars

\* a call before and a call after UTC midnight: two stores, the second one
\* created by its first event, one line each
C21_Witness ==
    /\ today = 1
    /\ \E i, j \in Reqs :
          /\ req[i].res = "ok" /\ req[i].day = 0
          /\ req[j].res = "ok" /\ req[j].day = 1
          /\ req[i].logFile # req[j].logFile
          /\ FileExists(LOG_DIR, req[i].logFile)
          /\ FileExists(LOG_DIR, req[j].logFile)
          /\ ContentOf(LOG_DIR, req[i].logFile) = Line(EventOf(i))
          /\ ContentOf(LOG_DIR, req[j].logFile) = Line(EventOf(j))

\* a is an initial segment of b
IsPrefixOf(a, b) == Len(a) <= Len(b) /\ SubSeq(b, 1, Len(a)) = a

\* C22: under the Event Writer a store is append-only: every file of
\* /evidence/logs is still there after a step, with its earlier content as a
\* prefix of its later content, so that records stay in the order of their
\* appends and none is modified or removed.
C22_AppendOnly ==
    [][ DirExists(LOG_DIR) =>
            /\ DirExists(LOG_DIR)'
            /\ \A n \in DOMAIN fs[LOG_DIR] :
                  /\ n \in DOMAIN fs'[LOG_DIR]
                  /\ IsPrefixOf(fs[LOG_DIR][n].content, fs'[LOG_DIR][n].content)
      ]_vars

\* a store holds the lines of two requests, in the order of their appends
C22_Witness ==
    \E i, j \in Reqs :
        /\ i # j
        /\ req[i].res = "ok" /\ req[j].res = "ok"
        /\ req[j].pc = "done"
        /\ FileExists(LOG_DIR, req[i].logFile)
        /\ ContentOf(LOG_DIR, req[i].logFile) = Line(EventOf(i)) \o Line(EventOf(j))

\* ------------------------------------------------------ failure of the digest
\* the step ends the run in the digest step, after a successful compression
DigestFailureStep == rot.pc = "sha" /\ rot'.pc = "exited" /\ rot'.exit # 0

\* the lines the step has added to rotation.log
NewRotationLines ==
    SubSeq(fs'[LOG_DIR][RotationLogName].content,
           Len(fs[LOG_DIR][RotationLogName].content) + 1,
           Len(fs'[LOG_DIR][RotationLogName].content))

\* C29 (as claimed): when the digest step fails after the compression
\* succeeded, the run ends without deleting the plaintext store and a line
\* naming the target (the store, the artifact or the digest file) is added
\* to rotation.log.
C29_DigestFailureLogged ==
    [][ DigestFailureStep =>
            /\ TargetLogName(rot.DATE_UTC) \in DOMAIN fs'[LOG_DIR]
            /\ fs'[LOG_DIR][TargetLogName(rot.DATE_UTC)].content = rot.seen
            /\ \E k \in 1 .. Len(NewRotationLines) :
                  NewRotationLines[k].name \in
                      {TargetLogName(rot.DATE_UTC), GzFileName(rot.DATE_UTC),
                       HashFileName(rot.DATE_UTC)}
      ]_vars

\* the part of C29 the script does meet: the failed digest step leaves the
\* plaintext store as Step 1 found it
C29_StoreKept ==
    [][ DigestFailureStep =>
            /\ TargetLogName(rot.DATE_UTC) \in DOMAIN fs'[LOG_DIR]
            /\ fs'[LOG_DIR][TargetLogName(rot.DATE_UTC)].content = rot.seen
      ]_vars

\* --------------------------------------------- digest against the artifact
\* no run of rotate_logs.sh is in progress
BetweenRuns == rot.pc \in {"idle", "exited"}

\* the artifact n of /evidence/logs is a complete gzip member
CompleteArtifact(n) ==
    /\ fs[LOG_DIR][n].content # <<>>
    /\ fs[LOG_DIR][n].content[1].t = "gzip"

\* C30 (as claimed): between runs, completed or aborted, whenever a complete
\* sealed artifact and a digest file exist for the same date, the content of
\* the digest file is the sha512sum line of the artifact stored under that
\* date's name.
C30_DigestIsHashOfArtifact ==
    BetweenRuns =>
        \A n \in ArtifactNames(fs) :
            (/\ CompleteArtifact(n)
             /\ FileExists(HASH_DIR, HashFileName(DateOfArtifact(n))))
                => ContentOf(HASH_DIR, HashFileName(DateOfArtifact(n)))
                       = Sha512Sum(n, ContentOf(LOG_DIR, n))

\* ------------------------------------------------- events against rotation
\* the complete line of request i stands in a plaintext file of /evidence/logs
InPlaintext(i) ==
    \E n \in DOMAIN fs[LOG_DIR] : CompleteLines(ContentOf(LOG_DIR, n), i) >= 1

\* the complete line of request i is in the bytes a complete artifact holds
InArtifact(i) ==
    \E n \in ArtifactNames(fs) :
        /\ CompleteArtifact(n)
        /\ CompleteLines(fs[LOG_DIR][n].content[1].data, i) >= 1

\* the retention purge has deleted the artifact of the store of request i
ArtifactPurged(i) ==
    /\ FileExists(LOG_DIR, RotationLogName)
    /\ \E k \in 1 .. Len(ContentOf(LOG_DIR, RotationLogName)) :
          ContentOf(LOG_DIR, RotationLogName)[k] = RotLine("deleted", req[i].logFile \o GzExt)

\* C28: in every interleaving of record() calls with rotation runs, an event
\* whose append succeeded is in a plaintext store or inside a complete sealed
\* artifact, unless the retention purge has deleted that artifact.
C28_NoEventLostToRotation ==
    \A i \in Reqs :
        req[i].res = "ok" =>
            /\ DirExists(LOG_DIR)
            /\ InPlaintext(i) \/ InArtifact(i) \/ ArtifactPurged(i)

\* a run that started on the day of a successful append has sealed a store
\* and ended, a second run has started, and the event is still there
C28_Witness ==
    \E i \in Reqs :
        /\ req[i].res = "ok"
        /\ req[i].day = rot.startDay
        /\ runs = 2
        /\ rot.pc = "exited"
        /\ FileExists(LOG_DIR, RotationLogName)
        /\ ArchivedStores # {}
        /\ InPlaintext(i)

\* ---------------------------------------------------------------- duration
\* the JSON records of the requests of the behaviour in the stores
RecordsInStores ==
    IF DirExists(LOG_DIR)
    THEN UNION { {ContentOf(LOG_DIR, n)[k] : k \in 1 .. Len(ContentOf(LOG_DIR, n))} :
                    n \in DOMAIN fs[LOG_DIR] }
    ELSE {}

\* C23 (as claimed): the duration in every recorded event is not negative and
\* is the time that passed between the start capture and the return of the
\* handler, in whole milliseconds rounded down, whatever the system clock did
\* in between.
C23_DurationIsElapsedTime ==
    \A c \in RecordsInStores :
        (c.t = "json" /\ c.req \in Reqs) =>
            /\ c.duration >= 0
            /\ c.duration = req[c.req].elapsed \div Millisecond

\* the part of C23 that holds: while the system clock is not set, the
\* duration is the elapsed time in whole milliseconds, rounded down
C23_DurationWhenClockNotSet ==
    clock.sets = 0 =>
        \A c \in RecordsInStores :
            (c.t = "json" /\ c.req \in Reqs) =>
                /\ c.duration >= 0
                /\ c.duration = req[c.req].elapsed \div Millisecond

\* an event of a handler that ran for one millisecond and a half
C23_WitnessRoundedDown ==
    \E c \in RecordsInStores :
        /\ c.t = "json" /\ c.req \in Reqs
        /\ req[c.req].elapsed = 3 * TickNs
        /\ c.duration = 1

\* ================================================== claims on the scratchpad
\* the absolute path of the file the last request named
RequestedFile == sanitizePath(http.body.path)

\* the last request was DELETE /file?path=p for a .txt file p that existed,
\* and it was answered with a 2xx status
DeleteAnswered2xx ==
    /\ http.url = "/file"
    /\ http.method = "DELETE"
    /\ requireOk(http.w)
    /\ HasSuffix(RequestedFile, fileExt)
    /\ RequestedFile \in http.existed

\* C24 (as claimed): after DELETE /file?path=p for an existing .txt file p
\* has returned a 2xx status, p is no longer in the scratchpad data and
\* GET /files of its folder no longer lists it.
C24_DeleteRemovesFile ==
    DeleteAnswered2xx =>
        /\ RequestedFile \notin DOMAIN disk
        /\ Base(RequestedFile) \notin ListedFiles(disk, Dir(RequestedFile))

\* the last request was one of list, get, save, move and create folder
PathHandled ==
    \/ http.url \in {"/files", "/file", "/file/save", "/file/move"}
    \/ http.url = "/folders" /\ http.method = "POST"

\* the paths the client supplied in the last request
SuppliedPaths ==
    IF ~PathHandled \/ ~http.body.ok THEN {}
    ELSE IF http.url = "/file/move" THEN {http.body.path, http.body.to}
    ELSE {http.body.path}

\* path has a ".." element
HasDotDotElement(path) == \E k \in 1 .. Len(Split(path)) : Split(path)[k] = DotDot

\* the last request was rejected with 400 before any access to the file system
RejectedUntouched == http.w.status = 400 /\ http.accessed = {}

\* C25 (as claimed): whatever a handler accesses is /scratchpad-data or lies
\* under it, and a request with a path that has a ".." element is rejected
\* with 400 without any access to the file system.
C25_DotDotRejected ==
    /\ \A p \in http.accessed : UnderRoot(p)
    /\ (\E path \in SuppliedPaths : HasDotDotElement(path)) => RejectedUntouched

\* C25 (amended): whatever a handler accesses is /scratchpad-data or lies
\* under it, and a request with a path whose cleaned form still contains ".."
\* is rejected with 400 without any access to the file system.
C25_Contained ==
    /\ \A p \in http.accessed : UnderRoot(p)
    /\ (\E path \in SuppliedPaths : Contains(Clean(path), DotDot)) => RejectedUntouched

\* a save under a path that climbs out of the root was rejected
C25_Witness ==
    /\ http.url = "/file/save"
    /\ http.body.ok
    /\ http.body.path = DotDot \o Slash \o <<"x">> \o fileExt
    /\ RejectedUntouched

\* a save under d/../b.txt was accepted and has written /scratchpad-data/b.txt
C25_WitnessResolved ==
    /\ http.url = "/file/save"
    /\ http.body.ok
    /\ HasDotDotElement(http.body.path)
    /\ http.w.status = 200
    /\ http.accessed = {scratchRoot \o Slash \o <<"b">> \o fileExt}
    /\ IsFile(disk, scratchRoot \o Slash \o <<"b">> \o fileExt)

\* C26 (as claimed): after any interleaving of openFile calls and the
\* completions of their fetches, no more than 10 tabs are open.
C26_AtMostTenTabs ==
    /\ Len(TabKeys(ui)) <= MAX_TABS
    /\ Len(ui.dom) <= MAX_TABS

\* the callback that ran last is that of the save of createNewFile, and the
\* save was answered with a 2xx status
NewFileSaveApplied == ui.done.kind = "new-save" /\ requireOk(http.w)

\* C27 (as claimed): the save of createNewFile is applied under a name that
\* does not exist in the folder at that moment: it never overwrites a file.
C27_NewFileNeverOverwrites ==
    NewFileSaveApplied => RequestedFile \notin http.existed

\* --------------------------------------------- partial artifacts (C31)
\* C31 (as claimed): when no run is in progress, every file of /evidence/logs
\* with the name of a sealed artifact is a complete gzip member: a run whose
\* compression failed has left no partial artifact behind.
C31_NoPartialArtifact ==
    BetweenRuns => \A n \in ArtifactNames(fs) : CompleteArtifact(n)

\* ------------------------------------- the rotation-activity record (C32)
StartText == "[INFO] Starting daily rotation job"

\* the lines of rotation.log in the volume f
ActivityOf(f) ==
    IF LOG_DIR \in DOMAIN f /\ RotationLogName \in DOMAIN f[LOG_DIR]
    THEN f[LOG_DIR][RotationLogName].content ELSE <<>>

\* the lines of rotation.log in f from the start line of the latest run on
RunLinesOf(f) ==
    LET lines == ActivityOf(f)
        starts == {k \in 1 .. Len(lines) : lines[k].t = StartText}
    IN IF starts = {} THEN <<>>
       ELSE SubSeq(lines, CHOOSE k \in starts : \A j \in starts : j <= k, Len(lines))

\* the texts of the lines, without the names -print wrote for deleted files
RECURSIVE TextsOf(_)
TextsOf(lines) ==
    IF lines = <<>> THEN <<>>
    ELSE IF Head(lines).t = "deleted" THEN TextsOf(Tail(lines))
         ELSE <<Head(lines).t>> \o TextsOf(Tail(lines))

\* the files of the volume f other than rotation.log, with their content
OtherFiles(f) ==
    [d \in DOMAIN f |-> [n \in (DOMAIN f[d]) \ {RotationLogName} |-> f[d][n]]]

\* the plaintext stores of the volume f, under either naming
StoreNames(f) ==
    IF LOG_DIR \in DOMAIN f
    THEN {n \in DOMAIN f[LOG_DIR] : HasPrefix(n, RequestsPrefix) /\ HasSuffix(n, LogExt)}
    ELSE {}

\* no line of the store is a line of the rotation job
OnlyEventLines(content) ==
    \A k \in 1 .. Len(content) : content[k].t \in {"json", "nl"}

\* the run ends after Step 1 found a store with events and Step 2 sealed it
SealingRunEnds == EndsRun /\ Rotating /\ rot'.exit = 0

\* the start line is the first thing a run writes and no other file changes
StartLineFirst ==
    StartsRun =>
        /\ ActivityOf(fs') = ActivityOf(fs) \o <<RotLine(StartText, NoName)>>
        /\ \A d \in DOMAIN fs : OtherFiles(fs')[d] = OtherFiles(fs)[d]

\* a sealing run wrote start, archived, hash-created and completion, in order
SealingRunLines ==
    SealingRunEnds =>
        TextsOf(RunLinesOf(fs')) =
            <<StartText, "[INFO] Archived", "[INFO] Created hash",
              "[INFO] Rotation completed successfully">>

\* rotation lines stay out of the evidence stores
StoresHoldEventsOnly ==
    \A n \in StoreNames(fs') : OnlyEventLines(fs'[LOG_DIR][n].content)

\* C32 (as claimed): every run appends its start line before it touches any
\* other file; on every exit path the run has appended at least one outcome
\* line after the start line when it exits; a sealing run appends start,
\* archived, hash-created and completion lines in this order; and no rotation
\* line is written into an evidence store.
C32_StartAndOutcomeLogged ==
    [][ /\ StartLineFirst
        /\ EndsRun => Len(RunLinesOf(fs')) >= 2
        /\ SealingRunLines
        /\ StoresHoldEventsOnly ]_vars

\* the parts of C32 the script meets: every exit path but the failure of the
\* digest step
C32_LoggedUnlessDigestFails ==
    [][ /\ StartLineFirst
        /\ (EndsRun /\ ~DigestFailureStep) => Len(RunLinesOf(fs')) >= 2
        /\ SealingRunLines
        /\ StoresHoldEventsOnly ]_vars

\* --------------------------------------------------- handler panics (C33)
\* C33 (as claimed): a request whose handler panicked inside AuditMiddleware
\* has exactly one audit event in the stores once the request has ended.
C33_PanicYieldsOneEvent ==
    \A i \in Reqs : req[i].pc = "panicked" => EventsOf(i) = 1

\* ------------------------------------------- timestamp against store (C34)
\* the calendar date in the name of a store of the Event Writer
DateInStoreName(n) == SubSeq(n, Len(RequestsPrefix) + 1, Len(n) - Len(LogExt))

\* the calendar date of an RFC 3339 timestamp: its first ten characters
DateOfTimestamp(ts) == SubSeq(ts, 1, 10)

\* the records of the requests in the file n of /evidence/logs
RecordsIn(n) ==
    {ContentOf(LOG_DIR, n)[k] :
        k \in {j \in 1 .. Len(ContentOf(LOG_DIR, n)) :
                 /\ ContentOf(LOG_DIR, n)[j].t = "json"
                 /\ ContentOf(LOG_DIR, n)[j].req \in Reqs}}

\* C34 (as claimed): every record in the store of UTC date D carries a
\* timestamp whose UTC calendar date is D, also for a request that started
\* before midnight and completed after it.
C34_TimestampDateIsStoreDate ==
    DirExists(LOG_DIR) =>
        \A n \in StoreNames(fs) :
            \A c \in RecordsIn(n) : DateOfTimestamp(c.timestamp) = DateInStoreName(n)

\* C34 (amended): every record in the store of UTC date D was handed to
\* writeAuditEvent on D and carries the timestamp of its request's start: the
\* date of the timestamp is the date the request entered AuditMiddleware,
\* which is D or an earlier day, and it is D when the request started on D.
C34_TimestampIsStartDate ==
    DirExists(LOG_DIR) =>
        \A n \in StoreNames(fs) :
            \A c \in RecordsIn(n) :
                /\ DateInStoreName(n) = GoDateLayout(DateOf(req[c.req].day))
                /\ DateOfTimestamp(c.timestamp) = GoDateLayout(DateOf(req[c.req].startDay))
                /\ req[c.req].startDay <= req[c.req].day
                /\ req[c.req].startDay = req[c.req].day
                      => DateOfTimestamp(c.timestamp) = DateInStoreName(n)

\* the store of day 1 holds the record of a request that started on day 0,
\* and the record of a request that started on day 1
C34_Witness ==
    /\ DirExists(LOG_DIR)
    /\ \E n \in StoreNames(fs) :
          /\ DateInStoreName(n) = GoDateLayout(DateOf(1))
          /\ \E c, e \in RecordsIn(n) :
                /\ DateOfTimestamp(c.timestamp) = GoDateLayout(DateOf(0))
                /\ DateOfTimestamp(e.timestamp) = GoDateLayout(DateOf(1))

\* ------------------------------------------------ status sent (C35)
\* the status code of the response the server sent: the code of the first
\* WriteHeader, 200 when the handler returned without one
StatusSent(w) == IF w.status = 0 THEN 200 ELSE w.status

\* C35 (as claimed): the Status of every audit event in a store is the
\* status code sent to the client of its request, whatever WriteHeader and
\* Write calls the handler made.
C35_StatusIsStatusSent ==
    DirExists(LOG_DIR) =>
        \A n \in StoreNames(fs) :
            \A c \in RecordsIn(n) :
                c.status = StatusSent(req[c.req].lrw.ResponseWriter)

\* ------------------------------------------- what the purge deletes (C36)
\* the files of dir the step has deleted
DeletedFrom(dir) == (DOMAIN fs[dir]) \ (DOMAIN fs'[dir])

\* C36: a step of the retention purge deletes from /evidence/logs only files
\* named requests_*.gz, and only in the purge of the artifacts; it deletes
\* from /evidence/hashes only files named requests_*.sha512, and only in the
\* purge of the digests; every other file, whatever its age, is left with its
\* content, and rotation.log is kept.
C36_PurgeDeletesOnlySealed ==
    [][ (PurgeLogsStep \/ PurgeHashesStep) =>
            /\ \A n \in DeletedFrom(LOG_DIR) : PurgeLogsStep /\ MatchesGzPattern(n)
            /\ \A n \in DeletedFrom(HASH_DIR) : PurgeHashesStep /\ MatchesShaPattern(n)
            /\ \A d \in {LOG_DIR, HASH_DIR} :
                  \A n \in DOMAIN FilesOf(fs', d) :
                      n \in DOMAIN fs[d] /\ fs'[d][n] = fs[d][n]
            /\ RotationLogName \in DOMAIN fs'[LOG_DIR] ]_vars

\* a run has purged an expired artifact and an expired digest, and the files
\* past both horizons that are not sealed artifacts in /evidence/logs or
\* digests in /evidence/hashes are still there
C36_Witness ==
    /\ rot.pc = "exited"
    /\ rot.exit = 0
    /\ Rotating
    /\ GzFileName(AgedDateUtc(LogRetentionDays + 1)) \notin DOMAIN fs[LOG_DIR]
    /\ HashFileName(AgedDateUtc(HashRetentionDays + 1)) \notin DOMAIN fs[HASH_DIR]
    /\ \A n \in DOMAIN StaleLogFiles :
          /\ n \in DOMAIN fs[LOG_DIR]
          /\ today - fs[LOG_DIR][n].mtime > HashRetentionDays
    /\ \A n \in DOMAIN StaleHashFiles :
          /\ n \in DOMAIN fs[HASH_DIR]
          /\ today - fs[HASH_DIR][n].mtime > HashRetentionDays

\* ------------------------------------------------ duplicate tabs (C37)
\* the fetches of openFile among the fetches in flight
OpenFetches(inflight) == SelectSeq(inflight, LAMBDA f : f.kind = "open")

\* the step has called openFile, which went on to fetch the file
OpenFileFetches ==
    /\ Len(OpenFetches(ui'.inflight)) = Len(OpenFetches(ui.inflight)) + 1
    /\ ui'.inflight[Len(ui'.inflight)].kind = "open"

\* C37 (as claimed): openFile never fetches a path that is a key of tabs,
\* whatever the content held for it: for such a path it only switches tabs.
C37_OpenTabNotFetchedAgain ==
    [][ OpenFileFetches => ~HasTab(ui, ui'.inflight[Len(ui'.inflight)].path) ]_vars

\* C37 for the tabs whose file was not empty when it was opened
C37_NonEmptyTabNotFetchedAgain ==
    [][ OpenFileFetches => ~TabTruthy(ui, ui'.inflight[Len(ui'.inflight)].path) ]_vars

\* --------------------------------------------- keys, tabs and editors (C38)
\* C38 (as claimed): #tabs and #editor-area have one child for every key of
\* tabs, and the i-th child was rendered for the i-th key.
C38_KeysTabsEditorsAligned ==
    /\ Len(ui.dom) = Len(ui.tabs)
    /\ \A i \in 1 .. Len(ui.tabs) : ui.dom[i].title = ui.tabs[i].path

====
